---- MODULE Spec2Model ----
(***************************************************************************)
(* The reminder scheduler of the task manager backend                      *)
(* (src/backend/app/services/scheduler.py), with the Data Store and Mail   *)
(* adapters it calls as nondeterministic collaborators.                    *)
(*                                                                         *)
(* A pass of check_task_reminders() is a sequence of steps: the tick that  *)
(* starts it, the answer of the store fetch (an exception, an empty list   *)
(* or the rows), one step per iteration of the for loop, and the summary   *)
(* and cleanup that end it.  The owner-email lookup answers with an email, *)
(* with {} or with no email, and the Mail adapter with True or False, at   *)
(* every call anew.                                                        *)
(*                                                                         *)
(* The rows of the tasks table are drawn in the initial state and stay as  *)
(* they are during a run of the scheduler: the scheduler only reads them.  *)
(*                                                                         *)
(* SpecLifecycle adds start() and stop() at any moment, the ticks the      *)
(* executor skips while a pass is in progress, and the two awaits at which *)
(* a pass gives the event loop away.                                       *)
(*                                                                         *)
(* SpecApp is the application around the scheduler: the lifespan of        *)
(* main.py, the callbacks of the MQTT client, and the task and reminder    *)
(* routes behind get_current_user.  A request is handled in one step, from *)
(* its token to its response; the store, the broker and the mail server    *)
(* answer each request anew, with success or with one of their failures.   *)
(*                                                                         *)
(* SpecService runs the passes next to the update, delete, reminder and    *)
(* test-email routes of one owner.  SpecOffsets gives the due dates UTC    *)
(* offsets, SpecStatuses gives the rows every status of TaskBase, and      *)
(* SpecUnresolved lets the owner lookup of one task fail at every pass.    *)
(*                                                                         *)
(* SpecRace splits update_task and delete_task at the await between their  *)
(* existence check and their mutation, for several requests in flight.     *)
(* SpecAdmin is the admin router behind require_admin.                     *)
(*                                                                         *)
(* Time is counted in hundredths of an hour (36 s), so that the window     *)
(* bounds 0.9, 1.1 and 0.08 of the source are the integers 90, 110 and 8.  *)
(* hours_until_due is total_seconds()/3600 in IEEE doubles; on this grid   *)
(* the quotient is the double nearest to k/100, which is the literal the   *)
(* source compares with, so the integer comparison agrees with the         *)
(* floating-point one at the bounds.  `now` is datetime.now(), taken once  *)
(* per pass and assumed not to go backwards from one pass to the next.     *)
(*                                                                         *)
(* The variables marked `history` record what the passes did; no action    *)
(* reads them to decide what the program does.                             *)
(***************************************************************************)
EXTENDS Integers, Sequences, FiniteSets, TLC

VARIABLES
    tasks,                \* the rows of the store's tasks table, in the order it returns them
    running,              \* AsyncIOScheduler is running (scheduler.start() done)
    jobs,                 \* ids of the jobs registered with the AsyncIOScheduler, one entry per job
    sent_reminders,       \* TaskScheduler.sent_reminders
    pc,                   \* position of the pass: idle, fetch, loop
    all_tasks,            \* the list the store fetch of the current pass returned
    idx,                  \* position of the for loop in all_tasks (1-based)
    now,                  \* `now` of the last pass that got past the fetch
    reminder_sent_count,  \* per-pass counter of lines 32, 79, 87, 98
    raised,               \* an exception escaped check_task_reminders()
    last_pass,            \* history: none, running, or how the last pass ended:
                          \* fetch_failed, empty, aborted, done
    mail_calls,           \* history: Mail adapter calls of the current pass
    mail_stats,           \* history: per key, the last answer and the successes since the last clear
    overdue_hist,         \* history: per task, passes and calls inside the overdue window
    last_ok,              \* history: keys whose send succeeded in the last pass
    cleared,              \* history: the cleanup of the last pass cleared the set
    prev,                 \* history: what the pass before the current one did
    instances,            \* running instances of the job, as the executor counts them
    call,                 \* the adapter call the current iteration is inside: none, lookup, mail
    started_once,         \* scheduler.start() has succeeded at least once
    stops,                \* history: the lifecycle states stop() has been called in
    stop_at,              \* history: where the pass was at the last stop()
    skipped,              \* history: a tick was skipped while a pass was in progress
    restarted,            \* history: start() was called on a running scheduler
    app,                  \* the lifespan of the application: new, up, down
    mqtt_loop,            \* the network loop of the MQTT client is running
    connected,            \* MQTTService.connected
    owners,               \* auth_users_id of the row of each task id ("none": the id was never given out)
    creds,                \* SMTP_EMAIL and SMTP_PASSWORD are configured
    last_req,             \* history: the request handled last and its response, until the response is delivered
    inflight              \* the update and delete requests whose handler is between its two store round trips, and their outcome

vars == <<tasks, running, jobs, sent_reminders, pc, all_tasks, idx, now,
          reminder_sent_count, raised, last_pass, mail_calls, mail_stats,
          overdue_hist, last_ok, cleared, prev,
          instances, call, started_once, stops, stop_at, skipped, restarted,
          app, mqtt_loop, connected, owners, creds, last_req, inflight>>

sched_vars == <<tasks, running, jobs>>
pass_vars == <<pc, all_tasks, idx, now, reminder_sent_count>>
hist_vars == <<last_pass, mail_calls, mail_stats, overdue_hist, last_ok, cleared, prev>>
life_hist == <<stops, stop_at, skipped, restarted>>
app_vars == <<app, mqtt_loop, connected, owners, creds, last_req, inflight>>

----------------------------------------------------------------------------
(* Bounds of the model *)

\* the handlers that can be between their two store round trips at once
MaxInflight == 3
Slots == 1..MaxInflight

\* a handler slot no request has used
FreeSlot == [stage |-> "free", route |-> "none", id |-> 0, arg |-> "none",
             user |-> "none", status |-> 0, event |-> "none", gone |-> FALSE]
NoInflight == [s \in Slots |-> FreeSlot]

\* the due date every dated task of the model carries (hundredths of an hour)
DueT == 200
\* the history counters saturate here
CountCap == 2

\* window classification is checked for every time-to-due up to this size
MaxHours == 130

\* ids of the tasks the store may return (opaque identifiers)
TaskIds == {1, 2}

\* time-to-due values at which a pass may take its `now`: the bounds of the
\* three windows, their neighbours outside, the centres, and far away
HoursPoints == {115, 111, 110, 100, 90, 89, 9, 8, 0, -8, -9, -89, -90, -100, -110, -111, -120}
NowPoints == {DueT - h : h \in HoursPoints}

----------------------------------------------------------------------------
(* Program constants *)

PreDueLo == 90
PreDueHi == 110
DueNowLo == -8
DueNowHi == 8
OverdueLo == -110
OverdueHi == -90
ReminderCeiling == 1000

\* add_job is called without max_instances: APScheduler's default applies
MaxInstances == 1

JobId == "task_reminder_check"
Windows == {"1h", "due", "overdue"}

----------------------------------------------------------------------------
(* Task records as the store returns them *)

Statuses == {"todo", "completed"}

\* due_date values: absent (None or ""), a non-ISO string, an ISO string
\* whose date and time fields read `wall`
DueDates == {[form |-> "absent", wall |-> 0],
             [form |-> "malformed", wall |-> 0],
             [form |-> "iso", wall |-> DueT]}

\* which of the keys the pass subscripts is missing from the record
MissingFields == {"none", "id", "auth_users_id", "title"}

TaskRecords ==
    [id : TaskIds, status : Statuses, due_date : DueDates, missing : MissingFields]

\* an open task with a due date and every field
Plain(task) ==
    /\ task.status # "completed"
    /\ task.due_date.form = "iso"
    /\ task.missing = "none"

\* the contents of the tasks table: rows have distinct ids; ids are opaque,
\* so the rows are listed by increasing id without loss
TaskLists ==
    {<<>>} \cup {<<t>> : t \in TaskRecords}
    \cup {p \in TaskRecords \X TaskRecords : p[1].id < p[2].id}

\* what _get_user_email may return: a record with an email, the empty
\* dict of its fall-through return, or a record whose email is None
UserData == {"email", "empty", "no_email"}

----------------------------------------------------------------------------
(* The pure parts of check_task_reminders *)

\* f"{task_id}_1h", f"{task_id}_due", f"{task_id}_overdue": the three
\* suffixes are such that id \o suffix determines both id and suffix (no
\* suffix is the end of another), so the string is modelled as the pair
ReminderKey(task_id, w) == <<task_id, w>>

\* (mutant) the status test of line 36 left out
SkipTaskNoStatus(task) ==
    task.due_date.form = "absent"

\* (mutant) archived tasks are left out as well
SkipTaskClosed(task) ==
    task.due_date.form = "absent" \/ task.status \in {"completed", "archived"}

\* line 36: no due date, or already completed
SkipTask(task) ==
    task.due_date.form = "absent" \/ task.status = "completed"

\* lines 41-49: fromisoformat raises ValueError on a non-ISO string;
\* tzinfo is dropped, the date and time fields are kept as they read
ParseRaises(task) == task.due_date.form = "malformed"
ParsedDueDate(task) == task.due_date.wall

\* lines 51-52: task['id'], task['auth_users_id'] raise KeyError
FieldRaises(task) == task.missing \in {"id", "auth_users_id"}

\* lines 55-56, in hundredths of an hour
HoursUntilDue(due_date, t_now) == due_date - t_now

\* (mutant) the sign of the overdue bounds lost
InOverdueUnsigned(h) == -OverdueHi <= h /\ h <= -OverdueLo

\* (mutant) exclusive bounds for the pre-due window
InPreDueExclusive(h) == PreDueLo < h /\ h < PreDueHi

InPreDue(h) == PreDueLo <= h /\ h <= PreDueHi
InDueNow(h) == DueNowLo <= h /\ h <= DueNowHi
InOverdue(h) == OverdueLo <= h /\ h <= OverdueHi

\* the window h lies in, by the bounds alone
WindowOf(h) ==
    IF InPreDue(h) THEN "1h"
    ELSE IF InDueNow(h) THEN "due"
    ELSE IF InOverdue(h) THEN "overdue"
    ELSE "none"

\* (mutant) the dedup tests of lines 74, 82, 90 left out
BranchNoDedup(h, task_id, sent) == WindowOf(h)

\* lines 74, 82, 90: the branch of the if / elif / elif chain that is taken;
\* each condition joins the window test and the dedup test
Branch(h, task_id, sent) ==
    IF InPreDue(h) /\ ReminderKey(task_id, "1h") \notin sent THEN "1h"
    ELSE IF InDueNow(h) /\ ReminderKey(task_id, "due") \notin sent THEN "due"
    ELSE IF InOverdue(h) /\ ReminderKey(task_id, "overdue") \notin sent THEN "overdue"
    ELSE "none"

\* (mutant) the tests of lines 66-71 left out
EmailResolvedAlways(user_data) == TRUE

\* lines 66-71: `if not user_data` and `if not user_email`
EmailResolved(user_data) == user_data = "email"

\* lines 75, 83, 91: the log line subscripts task['title'] before the send
TitleRaises(task) == task.missing = "title"

\* the title of a row, as the sequence of its parts: titles are opaque, the
\* row with id i has the title <<i>>
TitleOf(task) == <<task.id>>

\* (mutant) the overdue mail carries the title as it is
MailTitlePlain(task, w) == TitleOf(task)

\* lines 76, 84, 93-95: the title of the dict handed to send_task_reminder;
\* the overdue branch hands over a copy with the prefixed title
MailTitle(task, w) ==
    IF w = "overdue" THEN <<"OVERDUE: ">> \o TitleOf(task) ELSE TitleOf(task)

\* (mutant) the key is added whatever the Mail adapter answers
AfterSendAlways(sent, key, success) == sent \cup {key}

\* lines 77-78, 85-86, 96-97: the key is added on success only
AfterSend(sent, key, success) ==
    IF success THEN sent \cup {key} ELSE sent

\* lines 79, 87, 98
CountAfterSend(count, success) ==
    IF success THEN count + 1 ELSE count

\* (mutant) the cleanup of lines 109-110 left out
CleanupNever(sent) == sent

\* (mutant) the set is cleared as soon as it reaches the ceiling
CleanupAtCeiling(sent) ==
    IF Cardinality(sent) >= ReminderCeiling THEN {} ELSE sent

\* lines 151-156
CleanupOldReminders(sent) ==
    IF Cardinality(sent) > ReminderCeiling THEN {} ELSE sent

\* (mutant) no per-task handler: the exception leaves the loop
TaskExceptMissing == FALSE

\* lines 100-102: the per-task handler catches every Exception and continues
TaskExceptCatches == TRUE

\* (mutant) no outer handler: the exception leaves check_task_reminders
PassExceptMissing == FALSE

\* lines 112-113: the outer handler catches every Exception of the pass
PassExceptCatches == TRUE

----------------------------------------------------------------------------
(* History kept for the properties; no action reads it *)

Keys == TaskIds \X Windows

NoStats == [k \in Keys |-> [last |-> "none", oks |-> 0]]

NoOverdue == [i \in TaskIds |-> [polled |-> FALSE, calls |-> 0]]

Bump(n) == IF n < CountCap THEN n + 1 ELSE n

Record(stats, key, success) ==
    [stats EXCEPT ![key] =
        [last |-> IF success THEN "ok" ELSE "failed",
         oks |-> IF success THEN Bump(@.oks) ELSE @.oks]]

\* a pass handles a task that is not skipped at line 36 while its
\* time-to-due is inside the overdue window, and calls the Mail adapter or not
Polled(hist, task_id, h, called) ==
    IF InOverdue(h)
    THEN [hist EXCEPT ![task_id] =
            [polled |-> TRUE, calls |-> IF called THEN Bump(@.calls) ELSE @.calls]]
    ELSE hist

OkKeys(calls) ==
    {ReminderKey(calls[i].id, calls[i].window) :
        i \in {j \in 1..Len(calls) : calls[j].ok}}

NoPrev == [same |-> FALSE, ok |-> {}, sent |-> {}, cleared |-> FALSE]

\* the answers of the adapters during one request, when all is well
DefaultEnv == [store_ok |-> TRUE, broker |-> "ok", smtp |-> "ok"]

\* no call of send_task_reminder
NoMail ==
    [called |-> FALSE, about |-> 0, renders |-> TRUE, result |-> FALSE,
     raised |-> FALSE, dialled |-> FALSE, handed |-> FALSE]

\* no request yet
NoRequest ==
    [req |-> [route |-> "none", token |-> [valid |-> TRUE, type |-> "access", sub |-> "u1"], id |-> 1, arg |-> "none"],
     env |-> DefaultEnv, user |-> "none", conn |-> FALSE, status |-> 0,
     returned |-> {}, event |-> 0, pub_raised |-> FALSE, mail |-> NoMail,
     pub |-> [calls |-> 0, type |-> "none", topic |-> <<>>]]

----------------------------------------------------------------------------
(* State after construction: TaskScheduler.__init__, lines 11-13 *)

Init ==
    /\ tasks \in TaskLists
    /\ running = FALSE
    /\ jobs = <<>>
    /\ sent_reminders = {}
    /\ pc = "idle"
    /\ all_tasks = <<>>
    /\ idx = 1
    /\ now = DueT - 115
    /\ reminder_sent_count = 0
    /\ raised = FALSE
    /\ last_pass = "none"
    /\ mail_calls = <<>>
    /\ mail_stats = NoStats
    /\ overdue_hist = NoOverdue
    /\ last_ok = {}
    /\ cleared = FALSE
    /\ prev = NoPrev
    /\ instances = 0
    /\ call = "none"
    /\ started_once = FALSE
    /\ stops = {}
    /\ stop_at = "none"
    /\ skipped = FALSE
    /\ restarted = FALSE
    /\ app = "up"
    /\ mqtt_loop = FALSE
    /\ connected = FALSE
    /\ owners = [i \in TaskIds |-> "none"]
    /\ creds = TRUE
    /\ last_req = NoRequest
    /\ inflight = NoInflight

\* keys of n tasks that are no longer in the store (f"{id}_1h" of ids
\* outside TaskIds); the set only loses keys when it is cleared
OldKeys(n) == {ReminderKey(100 + i, "1h") : i \in 1..n}

\* a scheduler that has been running for long: the dedup set holds the
\* keys of old tasks, up to the ceiling the cleanup leaves in place
InitNearCeiling ==
    /\ tasks \in {l \in TaskLists : \A i \in 1..Len(l) : Plain(l[i])}
    /\ running = TRUE
    /\ jobs = <<JobId>>
    /\ sent_reminders \in {OldKeys(ReminderCeiling - 1), OldKeys(ReminderCeiling)}
    /\ pc = "idle"
    /\ all_tasks = <<>>
    /\ idx = 1
    /\ now = DueT - 115
    /\ reminder_sent_count = 0
    /\ raised = FALSE
    /\ last_pass = "none"
    /\ mail_calls = <<>>
    /\ mail_stats = NoStats
    /\ overdue_hist = NoOverdue
    /\ last_ok = {}
    /\ cleared = FALSE
    /\ prev = NoPrev
    /\ instances = 0
    /\ call = "none"
    /\ started_once = TRUE
    /\ stops = {}
    /\ stop_at = "none"
    /\ skipped = FALSE
    /\ restarted = FALSE
    /\ app = "up"
    /\ mqtt_loop = FALSE
    /\ connected = FALSE
    /\ owners = [i \in TaskIds |-> "none"]
    /\ creds = TRUE
    /\ last_req = NoRequest
    /\ inflight = NoInflight

----------------------------------------------------------------------------
(* start(), lines 158-174 *)

\* the scheduler holds a job with the id of the reminder check
HasJob(js) == \E i \in 1..Len(js) : js[i] = JobId

\* (mutant) replace_existing left out and the conflict not detected: every
\* call registers one more job
AddJobAgain(js) == Append(js, JobId)

\* add_job(..., id='task_reminder_check', replace_existing=True): a job
\* with the same id is replaced where it is, otherwise the job is added
AddJob(js) == IF HasJob(js) THEN js ELSE Append(js, JobId)

\* (mutant) no handler in start()
StartExceptMissing == FALSE

\* lines 173-174: the handler of start() catches every Exception
StartExceptCatches == TRUE

\* scheduler.start() raises SchedulerAlreadyRunningError on a running
\* scheduler, after add_job has replaced the job; the handler of line 173
\* logs it
StartBody ==
    /\ jobs' = AddJob(jobs)
    /\ running' = TRUE
    /\ started_once' = TRUE
    /\ raised' = (raised \/ (running /\ ~StartExceptCatches))
    /\ UNCHANGED <<tasks, sent_reminders, instances, call>>
    /\ UNCHANGED pass_vars
    /\ UNCHANGED hist_vars
    /\ UNCHANGED app_vars

Start ==
    /\ StartBody
    /\ UNCHANGED life_hist

\* start() on a scheduler that is running already, with its history kept
StartAgain ==
    /\ running
    /\ StartBody
    /\ restarted' = TRUE
    /\ UNCHANGED <<stops, stop_at, skipped>>

----------------------------------------------------------------------------
(* check_task_reminders(), lines 15-113 *)

\* the pass is a coroutine on the event loop of the service.  It gives the
\* loop up at its awaits only: the store fetch (line 21) and the owner
\* lookup (line 65).  email_service.send_task_reminder (lines 76, 84, 95) is
\* an ordinary call that runs smtplib inside the pass.
LoopHeld == pc = "loop" /\ call # "lookup"

\* the pass is suspended at one of its awaits
PassSuspended == pc = "fetch" \/ (pc = "loop" /\ call = "lookup")

\* (mutant) the job is submitted whatever the number of running instances
CanSubmitAlways(n) == TRUE

\* the executor accepts a run of the job while fewer than max_instances
\* instances of it are running
CanSubmit(n) == n < MaxInstances

\* the interval trigger fires and the job is submitted: one pass starts for
\* each job registered under the id
Tick ==
    /\ running
    /\ HasJob(jobs)
    /\ CanSubmit(instances)
    /\ pc' = "fetch"
    /\ instances' = instances + Len(jobs)
    /\ UNCHANGED <<all_tasks, idx, now, reminder_sent_count>>
    /\ UNCHANGED <<sent_reminders, raised, call, started_once>>
    /\ UNCHANGED sched_vars
    /\ UNCHANGED app_vars
    /\ UNCHANGED hist_vars
    /\ UNCHANGED life_hist

\* the interval trigger fires while max_instances instances are running:
\* the run is skipped with a warning (MaxInstancesReachedError).  The
\* trigger is a timer of the event loop, so it fires when the loop is free.
TickSkipped ==
    /\ running
    /\ HasJob(jobs)
    /\ ~CanSubmit(instances)
    /\ ~LoopHeld
    /\ skipped' = TRUE
    /\ UNCHANGED <<sent_reminders, raised, instances, call, started_once, stops, stop_at, restarted>>
    /\ UNCHANGED sched_vars
    /\ UNCHANGED app_vars
    /\ UNCHANGED pass_vars
    /\ UNCHANGED hist_vars

\* the pass is over: its locals are gone
PassOver ==
    /\ pc' = "idle"
    /\ all_tasks' = <<>>
    /\ idx' = 1
    /\ reminder_sent_count' = 0
    /\ mail_calls' = <<>>
    /\ prev' = NoPrev
    /\ instances' = instances - 1
    /\ call' = "none"
    /\ UNCHANGED <<now, started_once>>
    /\ UNCHANGED sched_vars
    /\ UNCHANGED app_vars
    /\ UNCHANGED life_hist

\* an exception reaches the outer handler of lines 112-113: the pass ends
\* there, without the cleanup
PassRaises(how) ==
    /\ PassOver
    /\ raised' = (raised \/ ~PassExceptCatches)
    /\ last_pass' = how
    /\ last_ok' = {}
    /\ cleared' = FALSE
    /\ UNCHANGED <<sent_reminders, mail_stats, overdue_hist>>

\* db_service.query raises (database.py lines 49-51 log and re-raise)
FetchFail ==
    /\ pc = "fetch"
    /\ PassRaises("fetch_failed")

\* lines 27-29: an empty list ends the pass before `now` is taken
FetchEmpty ==
    /\ pc = "fetch"
    /\ tasks = <<>>
    /\ PassOver
    /\ last_pass' = "empty"
    /\ last_ok' = {}
    /\ cleared' = FALSE
    /\ UNCHANGED <<sent_reminders, raised, mail_stats, overdue_hist>>

\* lines 21-32: the fetch returns tasks, and `now` is read from the clock,
\* which shows one of the instants of `points`
FetchReturnAt(points) ==
    /\ pc = "fetch"
    /\ tasks # <<>>
    /\ all_tasks' = tasks
    /\ \E t_now \in points :
        /\ t_now >= now
        /\ now' = t_now
        /\ prev' = [same |-> last_pass = "done" /\ t_now = now,
                    ok |-> last_ok,
                    sent |-> sent_reminders,
                    cleared |-> cleared]
    /\ reminder_sent_count' = 0
    /\ idx' = 1
    /\ pc' = "loop"
    /\ mail_calls' = <<>>
    /\ last_pass' = "running"
    /\ last_ok' = {}
    /\ cleared' = FALSE
    /\ UNCHANGED <<sent_reminders, raised, mail_stats, overdue_hist>>
    /\ UNCHANGED <<instances, call, started_once>>
    /\ UNCHANGED sched_vars
    /\ UNCHANGED app_vars
    /\ UNCHANGED life_hist

FetchReturn == FetchReturnAt(NowPoints)

\* `continue`: on to the next task of the list
Continue ==
    /\ pc' = "loop"
    /\ idx' = idx + 1
    /\ call' = "none"
    /\ UNCHANGED <<all_tasks, now, raised, last_pass, last_ok, cleared, prev>>
    /\ UNCHANGED <<instances, started_once>>
    /\ UNCHANGED sched_vars
    /\ UNCHANGED app_vars
    /\ UNCHANGED life_hist

\* an exception inside the per-task try of lines 39-102
TaskRaises ==
    IF TaskExceptCatches
    THEN /\ Continue
         /\ UNCHANGED <<sent_reminders, reminder_sent_count, mail_calls, mail_stats>>
    ELSE /\ PassRaises("aborted")

\* lines 76-79, 84-87, 95-98: the Mail adapter is called and answers
Send(task, w, success) ==
    LET key == ReminderKey(task.id, w) IN
    /\ sent_reminders' = AfterSend(sent_reminders, key, success)
    /\ reminder_sent_count' = CountAfterSend(reminder_sent_count, success)
    /\ mail_calls' = Append(mail_calls,
            [id |-> task.id, window |-> w, ok |-> success,
             title |-> MailTitle(task, w)])
    /\ mail_stats' = Record(mail_stats, key, success)
    /\ Continue

\* `continue` with nothing sent
Skip ==
    /\ Continue
    /\ UNCHANGED <<sent_reminders, reminder_sent_count, mail_calls, mail_stats>>

\* lines 34-102: one iteration of the loop, with the answers of
\* _get_user_email drawn from user_datas and those of the Mail adapter from
\* results.  _get_user_email returns {} on every failure (lines 146-149)
\* and never raises.
ProcessTaskWith(user_datas, results) ==
    /\ pc = "loop"
    /\ idx <= Len(all_tasks)
    /\ LET task == all_tasks[idx] IN
        IF SkipTask(task)
        THEN Skip /\ UNCHANGED overdue_hist
        ELSE IF ParseRaises(task) \/ FieldRaises(task)
        THEN TaskRaises /\ UNCHANGED overdue_hist
        ELSE LET h == HoursUntilDue(ParsedDueDate(task), now)
                 w == Branch(h, task.id, sent_reminders)
             IN \E user_data \in user_datas :
                  IF ~EmailResolved(user_data) \/ w = "none"
                  THEN Skip /\ overdue_hist' = Polled(overdue_hist, task.id, h, FALSE)
                  ELSE IF TitleRaises(task)
                  THEN TaskRaises /\ overdue_hist' = Polled(overdue_hist, task.id, h, FALSE)
                  ELSE /\ \E success \in results : Send(task, w, success)
                       /\ overdue_hist' = Polled(overdue_hist, task.id, h, TRUE)

ProcessTask == ProcessTaskWith(UserData, BOOLEAN)

\* lines 104-110: the summary line and the cleanup
LoopEnd ==
    /\ pc = "loop"
    /\ idx > Len(all_tasks)
    /\ sent_reminders' = CleanupOldReminders(sent_reminders)
    /\ cleared' = (sent_reminders' # sent_reminders)
    /\ mail_stats' = IF sent_reminders' # sent_reminders THEN NoStats ELSE mail_stats
    /\ overdue_hist' = IF sent_reminders' # sent_reminders THEN NoOverdue ELSE overdue_hist
    /\ last_pass' = "done"
    /\ last_ok' = OkKeys(mail_calls)
    /\ PassOver
    /\ UNCHANGED raised

----------------------------------------------------------------------------

Next ==
    \/ Start
    \/ Tick
    \/ FetchFail
    \/ FetchEmpty
    \/ FetchReturn
    \/ ProcessTask
    \/ LoopEnd

Spec == Init /\ [][Next]_vars

SpecNearCeiling == InitNearCeiling /\ [][Next]_vars

\* The three-pass scenario: each pass that gets past the fetch takes its
\* `now` one hour before the due date, then at the due date, then one hour
\* after it; no fetch fails, every owner email resolves and every send
\* succeeds.
ScenarioPoints == {DueT - 100, DueT, DueT + 100}

NextPoint(t) == {p \in ScenarioPoints : p > t /\ \A q \in ScenarioPoints : q > t => p <= q}

NextScenario ==
    \/ Start
    \/ Tick
    \/ FetchEmpty
    \/ FetchReturnAt(NextPoint(now))
    \/ ProcessTaskWith({"email"}, {TRUE})
    \/ LoopEnd

SpecScenario == Init /\ [][NextScenario]_vars

----------------------------------------------------------------------------
(* stop(), lines 176-182, and the scheduler's lifecycle *)

\* never started, started, or stopped after a start
Lifecycle ==
    IF running THEN "started"
    ELSE IF started_once THEN "stopped" ELSE "never_started"

\* where the pass is, for the history of stop()
PassAt ==
    IF pc = "idle" THEN "idle"
    ELSE IF pc = "fetch" THEN "fetch"
    ELSE IF pc = "loop" THEN "lookup"
    ELSE "cancelled"

\* scheduler.shutdown() raises SchedulerNotRunningError (or fails on the
\* event loop it never got) unless the scheduler is running
ShutdownRaises(is_running) == ~is_running

\* (mutant) no handler in stop()
StopExceptMissing == FALSE

\* lines 181-182: the handler of stop() catches every Exception
StopExceptCatches == TRUE

\* (mutant) stop() logs and leaves the scheduler as it is
AfterShutdownNothing(is_running, js) == [running |-> is_running, jobs |-> js]

\* line 179: shutdown() of a running scheduler stops it and shuts its job
\* store down, which drops the jobs; on any other scheduler it raises
\* before it changes anything
AfterShutdown(is_running, js) ==
    IF is_running
    THEN [running |-> FALSE, jobs |-> <<>>]
    ELSE [running |-> is_running, jobs |-> js]

\* stop() is called from another coroutine of the loop, so not while the
\* pass holds the loop.  shutdown() also shuts the executor down; whether
\* that cancels the task of a pass suspended at an await depends on the
\* APScheduler at hand: both outcomes are kept.  A cancelled pass gets
\* CancelledError at its await, which is no Exception: neither handler of
\* the pass catches it.
StopBody ==
    /\ ~LoopHeld
    /\ LET after == AfterShutdown(running, jobs) IN
        /\ running' = after.running
        /\ jobs' = after.jobs
    /\ raised' = (raised \/ (ShutdownRaises(running) /\ ~StopExceptCatches))
    /\ \E cancels \in BOOLEAN :
        pc' = IF running /\ PassSuspended /\ cancels THEN "cancelled" ELSE pc
    /\ stops' = stops \cup {Lifecycle}
    /\ stop_at' = IF running THEN PassAt ELSE stop_at
    /\ UNCHANGED <<tasks, sent_reminders, all_tasks, idx, now, reminder_sent_count>>
    /\ UNCHANGED <<instances, call, started_once, skipped, restarted>>
    /\ UNCHANGED hist_vars

Stop ==
    /\ StopBody
    /\ UNCHANGED app_vars

\* CancelledError arrives in the suspended pass and leaves
\* check_task_reminders through both handlers: no cleanup, no summary
Cancelled ==
    /\ pc = "cancelled"
    /\ PassOver
    /\ last_pass' = "cancelled"
    /\ last_ok' = {}
    /\ cleared' = FALSE
    /\ UNCHANGED <<sent_reminders, raised, mail_stats, overdue_hist>>

----------------------------------------------------------------------------
(* The adapter calls of one iteration, lines 65 and 76, 84, 95 *)

\* line 65: the iteration reaches `await self._get_user_email(user_id)`
BeginLookup ==
    /\ pc = "loop"
    /\ idx <= Len(all_tasks)
    /\ call = "none"
    /\ LET task == all_tasks[idx] IN
        /\ ~SkipTask(task)
        /\ ~ParseRaises(task)
        /\ ~FieldRaises(task)
    /\ call' = "lookup"
    /\ UNCHANGED <<tasks, running, jobs, sent_reminders, raised, instances, started_once>>
    /\ UNCHANGED app_vars
    /\ UNCHANGED pass_vars
    /\ UNCHANGED hist_vars
    /\ UNCHANGED life_hist

\* lines 76, 84, 95: the lookup has answered with an email and a branch of
\* the chain is taken: the iteration is inside send_task_reminder
BeginMail ==
    /\ pc = "loop"
    /\ idx <= Len(all_tasks)
    /\ call = "lookup"
    /\ LET task == all_tasks[idx]
           h == HoursUntilDue(ParsedDueDate(task), now)
       IN /\ Branch(h, task.id, sent_reminders) # "none"
          /\ ~TitleRaises(task)
    /\ call' = "mail"
    /\ UNCHANGED <<tasks, running, jobs, sent_reminders, raised, instances, started_once>>
    /\ UNCHANGED app_vars
    /\ UNCHANGED pass_vars
    /\ UNCHANGED hist_vars
    /\ UNCHANGED life_hist

\* the rest of the iteration; inside send_task_reminder the lookup has
\* answered already
FinishTask ==
    ProcessTaskWith(IF call = "mail" THEN {"email"} ELSE UserData, BOOLEAN)

\* main.py lines 98-104: GET / answers with a constant; a request handler
\* runs on the event loop, so only when no coroutine holds it
RootRequest ==
    /\ app = "up"
    /\ ~LoopHeld
    /\ UNCHANGED vars

----------------------------------------------------------------------------
(* A scheduler whose owner calls start() and stop() at any time *)

\* the instants a pass may read from the clock: two inside the pre-due
\* window and the due date
LifePoints == {DueT - 100, DueT - 95, DueT}

InitLifecycle ==
    /\ Init
    /\ \A i \in 1..Len(tasks) : Plain(tasks[i])

NextLifecycle ==
    \/ Start
    \/ StartAgain
    \/ Stop
    \/ Tick
    \/ TickSkipped
    \/ FetchFail
    \/ FetchEmpty
    \/ FetchReturnAt(LifePoints)
    \/ BeginLookup
    \/ BeginMail
    \/ FinishTask
    \/ LoopEnd
    \/ Cancelled
    \/ RootRequest

SpecLifecycle == InitLifecycle /\ [][NextLifecycle]_vars

----------------------------------------------------------------------------
(* Bearer tokens: utils/jwt.py and middleware/auth.py *)

Users == {"u1", "u2"}
NoUser == "none"

\* a token as the service sees it: whether jwt.decode accepts it (signature
\* and expiry), and the `type` and `sub` claims of its payload ("none": the
\* claim is absent)
TokenTypes == {"access", "refresh", "none"}
Tokens ==
    {[valid |-> FALSE, type |-> "none", sub |-> NoUser]}
    \cup [valid : {TRUE}, type : TokenTypes, sub : Users \cup {NoUser}]

\* jwt.py lines 19-41: the tokens register and login issue for a user
AccessToken(u) == [valid |-> TRUE, type |-> "access", sub |-> u]
RefreshToken(u) == [valid |-> TRUE, type |-> "refresh", sub |-> u]

\* jwt.py lines 43-50: the payload, or None on JWTError
DecodeToken(token) ==
    IF token.valid
    THEN [ok |-> TRUE, type |-> token.type, sub |-> token.sub]
    ELSE [ok |-> FALSE, type |-> "none", sub |-> NoUser]

Unauthorized == [status |-> 401, user_id |-> NoUser]

\* (mutant) the test of the `type` claim left out
GetCurrentUserAnyType(token) ==
    LET payload == DecodeToken(token) IN
    IF ~payload.ok THEN Unauthorized
    ELSE IF payload.sub = NoUser THEN Unauthorized
    ELSE [status |-> 200, user_id |-> payload.sub]

\* auth.py lines 9-61
GetCurrentUser(token) ==
    LET payload == DecodeToken(token) IN
    IF ~payload.ok THEN Unauthorized
    ELSE IF payload.type # "access" THEN Unauthorized
    ELSE IF payload.sub = NoUser THEN Unauthorized
    ELSE [status |-> 200, user_id |-> payload.sub]

----------------------------------------------------------------------------
(* EmailService.send_task_reminder, email_service.py lines 16-92 *)

\* the step of the SMTP exchange that fails (lines 81-85; "quit" is the
\* QUIT the `with` block sends on its way out), or "ok"
SmtpOutcomes == {"ok", "connect", "starttls", "login", "send", "quit"}

\* lines 25, 30: task['title'] and fromisoformat(task['due_date'])
RenderRaises(task) ==
    task.missing = "title" \/ task.due_date.form = "malformed"

\* (mutant) no handler around the rendering and the SMTP exchange
EmailExceptMissing == FALSE

\* lines 90-92: every Exception of lines 22-88 is logged and answered False
EmailExceptCatches == TRUE

\* result: the boolean returned; raised: an exception reached the caller;
\* dialled: smtplib.SMTP(host, port) was called; handed: send_message
\* returned
SendTaskReminder(has_creds, task, smtp) ==
    IF ~has_creds
    THEN [result |-> FALSE, raised |-> FALSE, dialled |-> FALSE, handed |-> FALSE]
    ELSE IF RenderRaises(task)
    THEN [result |-> FALSE, raised |-> ~EmailExceptCatches,
          dialled |-> FALSE, handed |-> FALSE]
    ELSE [result |-> smtp = "ok",
          raised |-> smtp # "ok" /\ ~EmailExceptCatches,
          dialled |-> TRUE,
          handed |-> smtp \in {"ok", "quit"}]

----------------------------------------------------------------------------
(* MQTTService.publish_task_event, mqtt_service.py lines 53-76 *)

\* client.publish returns MQTT_ERR_SUCCESS or an error code, or the
\* publishing raises (json.dumps, the client)
BrokerOutcomes == {"ok", "rc_error", "raises"}

\* (mutant) no handler in publish_task_event
PublishExceptMissing == FALSE

\* lines 75-76
PublishExceptCatches == TRUE

\* (mutant) the test of the connected flag left out
PublishTaskEventUnchecked(conn, broker) ==
    [published |-> broker = "ok",
     raised |-> broker = "raises" /\ ~PublishExceptCatches]

\* published: a message was handed to the broker; raised: an exception
\* reached the caller
PublishTaskEvent(conn, broker) ==
    IF ~conn
    THEN [published |-> FALSE, raised |-> FALSE]
    ELSE [published |-> broker = "ok",
          raised |-> broker = "raises" /\ ~PublishExceptCatches]

----------------------------------------------------------------------------
(* The task routes (routes/tasks.py) and the reminder route                *)
(* (routes/notifications.py), as functions of the request, the answers of  *)
(* the adapters, and the tasks table with the owner of each row            *)

Routes == {"list", "get", "create", "update", "delete", "remind"}

\* what a request carries besides the token and the task id: the due date
\* of a task to create, the status to set ("unset": a body without fields)
ArgsFor(route) ==
    IF route = "create" THEN {"iso"}
    ELSE IF route = "update" THEN Statuses \cup {"unset"}
    ELSE {"none"}

\* the answers of the adapters a request to `route` can meet: the broker is
\* asked by the routes that publish, when the client is connected; the mail
\* server by the reminder route, when the credentials are set; neither when
\* the store fails, which every route asks first
EnvsFor(route, conn, has_creds) ==
    {e \in [store_ok : IF route = "test" THEN {TRUE} ELSE BOOLEAN,
            broker : IF route \in {"create", "update", "delete"} /\ conn
                     THEN BrokerOutcomes ELSE {"ok"},
            smtp : IF route \in {"remind", "test"} /\ has_creds
                   THEN SmtpOutcomes ELSE {"ok"}] :
        ~e.store_ok => e.broker = "ok" /\ e.smtp = "ok"}

\* no call of publish_task_event
NoPub == [calls |-> 0, type |-> "none", topic |-> <<>>]

\* (mutant) every route announces an update
EventTypeUpdated(route) == "updated"

\* tasks.py lines 101, 201, 241: the event type each route passes
EventType(route) ==
    IF route = "create" THEN "created"
    ELSE IF route = "update" THEN "updated"
    ELSE "deleted"

\* mqtt_service.py line 60: f"{self.topic_prefix}/user/{user_id}/tasks", as
\* the sequence of its segments
Topic(user_id) == <<"prefix", "user", user_id, "tasks">>

\* the one call of publish_task_event a route makes, with the caller's id
PubCall(route, user) ==
    [calls |-> 1, type |-> EventType(route), topic |-> Topic(user)]

\* a response that returns no task, publishes nothing and mails nothing
Resp(status, tbl, own) ==
    [status |-> status, tasks |-> tbl, owners |-> own, returned |-> {},
     event |-> 0, pub_raised |-> FALSE, mail |-> NoMail, pub |-> NoPub]

\* (mutant) the auth_users_id filter left out
RowsById(tbl, own, user, id) ==
    {i \in 1..Len(tbl) : tbl[i].id = id}

\* filters={"id": task_id, "auth_users_id": user_id}
OwnedRows(tbl, own, user, id) ==
    {i \in 1..Len(tbl) : tbl[i].id = id /\ own[tbl[i].id] = user}

\* TaskResponse(**task) fails validation on a row without title or with a
\* due_date that is no datetime
ResponseRaises(task) ==
    task.missing # "none" \/ task.due_date.form = "malformed"

\* tasks.py lines 13-65
ListTasks(user, env, tbl, own) ==
    LET rows == {i \in 1..Len(tbl) : own[tbl[i].id] = user} IN
    IF ~env.store_ok \/ (\E i \in rows : ResponseRaises(tbl[i]))
    THEN Resp(500, tbl, own)
    ELSE [Resp(200, tbl, own) EXCEPT !.returned = {tbl[i].id : i \in rows}]

\* tasks.py lines 119-148
GetTask(user, id, env, tbl, own) ==
    LET rows == OwnedRows(tbl, own, user, id) IN
    IF ~env.store_ok THEN Resp(500, tbl, own)
    ELSE IF rows = {} THEN Resp(404, tbl, own)
    ELSE IF \E i \in rows : ResponseRaises(tbl[i]) THEN Resp(500, tbl, own)
    ELSE [Resp(200, tbl, own) EXCEPT !.returned = {id}]

\* tasks.py lines 67-110; id is the id the store gives the new row
CreateTask(user, id, due, env, tbl, own, conn) ==
    IF ~env.store_ok THEN Resp(500, tbl, own)
    ELSE LET row == [id |-> id, status |-> "todo",
                     due_date |-> CHOOSE d \in DueDates : d.form = due,
                     missing |-> "none"]
             pub == PublishTaskEvent(conn, env.broker)
         IN [status |-> IF pub.raised THEN 500 ELSE 201,
             tasks |-> Append(tbl, row),
             owners |-> [own EXCEPT ![id] = user],
             returned |-> IF pub.raised THEN {} ELSE {id},
             event |-> IF pub.published THEN id ELSE 0,
             pub_raised |-> pub.raised,
             mail |-> NoMail,
             pub |-> PubCall("create", user)]

\* tasks.py lines 150-212
UpdateTask(user, id, to, env, tbl, own, conn) ==
    LET rows == OwnedRows(tbl, own, user, id) IN
    IF ~env.store_ok THEN Resp(500, tbl, own)
    ELSE IF rows = {} THEN Resp(404, tbl, own)
    ELSE IF to = "unset" THEN Resp(400, tbl, own)
    ELSE LET pub == PublishTaskEvent(conn, env.broker)
             fails == pub.raised \/ (\E i \in rows : ResponseRaises(tbl[i]))
         IN [status |-> IF fails THEN 500 ELSE 200,
             tasks |-> [i \in 1..Len(tbl) |->
                         IF i \in rows THEN [tbl[i] EXCEPT !.status = to] ELSE tbl[i]],
             owners |-> own,
             returned |-> IF fails THEN {} ELSE {id},
             event |-> IF pub.published THEN id ELSE 0,
             pub_raised |-> pub.raised,
             mail |-> NoMail,
             pub |-> PubCall("update", user)]

\* tasks.py lines 214-252
DeleteTask(user, id, env, tbl, own, conn) ==
    LET rows == OwnedRows(tbl, own, user, id)
        Kept(t) == \A i \in rows : tbl[i].id # t.id
    IN
    IF ~env.store_ok THEN Resp(500, tbl, own)
    ELSE IF rows = {} THEN Resp(404, tbl, own)
    ELSE LET pub == PublishTaskEvent(conn, env.broker)
         IN [status |-> IF pub.raised THEN 500 ELSE 204,
             tasks |-> SelectSeq(tbl, Kept),
             owners |-> own,
             returned |-> {},
             event |-> IF pub.published THEN id ELSE 0,
             pub_raised |-> pub.raised,
             mail |-> NoMail,
             pub |-> PubCall("delete", user)]

\* notifications.py lines 13-55
SendReminder(user, id, env, tbl, own, has_creds) ==
    LET rows == OwnedRows(tbl, own, user, id) IN
    IF ~env.store_ok THEN Resp(500, tbl, own)
    ELSE IF rows = {} THEN Resp(404, tbl, own)
    ELSE LET task == tbl[CHOOSE i \in rows : TRUE]
             sent == SendTaskReminder(has_creds, task, env.smtp)
         IN [Resp(IF sent.result /\ ~sent.raised THEN 200 ELSE 500, tbl, own)
                EXCEPT !.mail = [called |-> TRUE, about |-> task.id,
                                 renders |-> ~RenderRaises(task),
                                 result |-> sent.result, raised |-> sent.raised,
                                 dialled |-> sent.dialled, handed |-> sent.handed]]

\* the task of test_email: it has a title, a priority and an ISO due_date
TestTask ==
    [id |-> 0, status |-> "todo", due_date |-> [form |-> "iso", wall |-> DueT],
     missing |-> "none"]

\* notifications.py lines 57-85: no store call; the handler of line 80
\* turns the HTTPException of line 75 into another 500
TestEmail(user, env, tbl, own, has_creds) ==
    LET sent == SendTaskReminder(has_creds, TestTask, env.smtp)
    IN [Resp(IF sent.result /\ ~sent.raised THEN 200 ELSE 500, tbl, own)
           EXCEPT !.mail = [called |-> TRUE, about |-> TestTask.id,
                            renders |-> ~RenderRaises(TestTask),
                            result |-> sent.result, raised |-> sent.raised,
                            dialled |-> sent.dialled, handed |-> sent.handed]]

\* Depends(get_current_user) runs before the body of every one of these
\* routes; its HTTPException is the response
Handle(req, env, tbl, own, conn, has_creds) ==
    LET auth == GetCurrentUser(req.token)
        user == auth.user_id
    IN
    IF auth.status = 401 THEN Resp(401, tbl, own)
    ELSE IF req.route = "list" THEN ListTasks(user, env, tbl, own)
    ELSE IF req.route = "get" THEN GetTask(user, req.id, env, tbl, own)
    ELSE IF req.route = "create" THEN CreateTask(user, req.id, req.arg, env, tbl, own, conn)
    ELSE IF req.route = "update" THEN UpdateTask(user, req.id, req.arg, env, tbl, own, conn)
    ELSE IF req.route = "delete" THEN DeleteTask(user, req.id, env, tbl, own, conn)
    ELSE IF req.route = "test" THEN TestEmail(user, env, tbl, own, has_creds)
    ELSE SendReminder(user, req.id, env, tbl, own, has_creds)

\* the requests to `route` that differ in what the service reads of them: a
\* request the dependency rejects is read no further than its token
RequestsTo(route) ==
    {req \in [route : {route}, token : Tokens, id : TaskIds, arg : ArgsFor(route)] :
        /\ route \in {"list", "test"} => req.id = 1
        /\ GetCurrentUser(req.token).status = 401 =>
                req.id = 1 /\ req.arg = CHOOSE a \in ArgsFor(route) : TRUE}

\* (mutant) a manual reminder that was sent marks the task as reminded
DedupAfterRouteMarks(sent, resp) ==
    IF resp.mail.called /\ resp.mail.result
    THEN sent \cup {ReminderKey(resp.mail.about, w) : w \in Windows}
    ELSE sent

\* the routes hold no reference to task_scheduler: whatever the response,
\* sent_reminders is what it was
DedupAfterRoute(sent, resp) == sent

\* one request to `route`, handled from its dependency to its response.
\* The requests are handled one after the other.  The store gives a new row
\* an id it has not given out before (the model has TaskIds to give).
HttpRequest(route) ==
    /\ app = "up"
    /\ ~LoopHeld
    /\ last_req = NoRequest
    /\ \E req \in RequestsTo(route) :
        /\ route = "create" /\ GetCurrentUser(req.token).status # 401
                => owners[req.id] = NoUser
        /\ \E env \in (IF GetCurrentUser(req.token).status = 401
                       THEN {DefaultEnv} ELSE EnvsFor(route, connected, creds)) :
            LET r == Handle(req, env, tasks, owners, connected, creds)
            IN /\ tasks' = r.tasks
               /\ owners' = r.owners
               /\ sent_reminders' = DedupAfterRoute(sent_reminders, r)
               /\ last_req' = [req |-> req, env |-> env,
                               user |-> GetCurrentUser(req.token).user_id,
                               conn |-> connected,
                               status |-> r.status, returned |-> r.returned,
                               event |-> r.event, pub_raised |-> r.pub_raised,
                               mail |-> r.mail, pub |-> r.pub]
    /\ UNCHANGED <<running, jobs, raised>>
    /\ UNCHANGED <<instances, call, started_once>>
    /\ UNCHANGED <<app, mqtt_loop, connected, creds, inflight>>
    /\ UNCHANGED pass_vars
    /\ UNCHANGED hist_vars
    /\ UNCHANGED life_hist

\* the response leaves the service
Respond ==
    /\ last_req # NoRequest
    /\ last_req' = NoRequest
    /\ UNCHANGED <<tasks, running, jobs, sent_reminders, raised>>
    /\ UNCHANGED <<instances, call, started_once>>
    /\ UNCHANGED <<app, mqtt_loop, connected, owners, creds, inflight>>
    /\ UNCHANGED pass_vars
    /\ UNCHANGED hist_vars
    /\ UNCHANGED life_hist

ListTasksRequest == HttpRequest("list")
GetTaskRequest == HttpRequest("get")
CreateTaskRequest == HttpRequest("create")
UpdateTaskRequest == HttpRequest("update")
DeleteTaskRequest == HttpRequest("delete")
SendReminderRequest == HttpRequest("remind")
TestEmailRequest == HttpRequest("test")

----------------------------------------------------------------------------
(* The application: lifespan of main.py, lines 16-56, and the callbacks of *)
(* the MQTT client                                                         *)

\* lines 19-51: the startup half.  mqtt_service.connect() starts the
\* network loop of the client when client.connect() succeeds and logs the
\* exception otherwise.  The startup does not call task_scheduler.start().
LifespanStartup ==
    /\ app = "new"
    /\ app' = "up"
    /\ \E connect_ok \in BOOLEAN : mqtt_loop' = connect_ok
    /\ UNCHANGED <<tasks, running, jobs, sent_reminders, raised>>
    /\ UNCHANGED <<instances, call, started_once>>
    /\ UNCHANGED <<connected, owners, creds, last_req, inflight>>
    /\ UNCHANGED pass_vars
    /\ UNCHANGED hist_vars
    /\ UNCHANGED life_hist

\* mqtt_service.py lines 40-46, on the network loop of the client.  A route
\* reads the flag once, so the callbacks are placed between the requests.
OnConnect ==
    /\ mqtt_loop
    /\ last_req = NoRequest
    /\ \E rc_ok \in BOOLEAN : connected' = (connected \/ rc_ok)
    /\ UNCHANGED <<tasks, running, jobs, sent_reminders, raised>>
    /\ UNCHANGED <<instances, call, started_once>>
    /\ UNCHANGED <<app, mqtt_loop, owners, creds, last_req, inflight>>
    /\ UNCHANGED pass_vars
    /\ UNCHANGED hist_vars
    /\ UNCHANGED life_hist

\* mqtt_service.py lines 48-51
OnDisconnect ==
    /\ mqtt_loop
    /\ last_req = NoRequest
    /\ connected' = FALSE
    /\ UNCHANGED <<tasks, running, jobs, sent_reminders, raised>>
    /\ UNCHANGED <<instances, call, started_once>>
    /\ UNCHANGED <<app, mqtt_loop, owners, creds, last_req, inflight>>
    /\ UNCHANGED pass_vars
    /\ UNCHANGED hist_vars
    /\ UNCHANGED life_hist

\* lines 53-56, after the server has answered the requests it had taken:
\* mqtt_service.disconnect() stops the network loop of the client, then
\* task_scheduler.stop()
LifespanShutdown ==
    /\ app = "up"
    /\ last_req = NoRequest
    /\ app' = "down"
    /\ mqtt_loop' = FALSE
    /\ StopBody
    /\ UNCHANGED <<connected, owners, creds, last_req, inflight>>

\* the rows the table holds when the application starts: no row, or one
\* open task, which may lack its title or have a due_date that is no ISO
\* string
AppTables ==
    {l \in TaskLists :
        /\ Len(l) <= 1
        /\ \A i \in 1..Len(l) :
            /\ l[i].status = "todo"
            /\ l[i].missing \in {"none", "title"}
            /\ l[i].due_date.form \in {"iso", "malformed"}
            /\ (l[i].missing = "title" => l[i].due_date.form = "iso")}

InitApp ==
    /\ tasks \in AppTables
    /\ owners \in [TaskIds -> Users \cup {NoUser}]
    /\ \A id \in TaskIds :
        owners[id] # NoUser <=> \E i \in 1..Len(tasks) : tasks[i].id = id
    /\ creds \in BOOLEAN
    /\ app = "new"
    /\ mqtt_loop = FALSE
    /\ connected = FALSE
    /\ last_req = NoRequest
    /\ inflight = NoInflight
    /\ running = FALSE
    /\ jobs = <<>>
    /\ sent_reminders = {}
    /\ pc = "idle"
    /\ all_tasks = <<>>
    /\ idx = 1
    /\ now = DueT - 115
    /\ reminder_sent_count = 0
    /\ raised = FALSE
    /\ last_pass = "none"
    /\ mail_calls = <<>>
    /\ mail_stats = NoStats
    /\ overdue_hist = NoOverdue
    /\ last_ok = {}
    /\ cleared = FALSE
    /\ prev = NoPrev
    /\ instances = 0
    /\ call = "none"
    /\ started_once = FALSE
    /\ stops = {}
    /\ stop_at = "none"
    /\ skipped = FALSE
    /\ restarted = FALSE

NextApp ==
    \/ LifespanStartup
    \/ OnConnect
    \/ OnDisconnect
    \/ ListTasksRequest
    \/ GetTaskRequest
    \/ CreateTaskRequest
    \/ UpdateTaskRequest
    \/ DeleteTaskRequest
    \/ SendReminderRequest
    \/ Respond
    \/ LifespanShutdown

SpecApp == InitApp /\ [][NextApp]_vars

----------------------------------------------------------------------------
(* Shorthands of the properties *)

\* the pass is inside its loop, about to handle all_tasks[idx]
AtTask == pc = "loop" /\ idx <= Len(all_tasks)

\* the loop of the pass has handled every task; the cleanup is next
LoopDone == pc = "loop" /\ idx > Len(all_tasks)

CallKey(c) == ReminderKey(c.id, c.window)

\* time-to-due of a task at the `now` of the pass
HoursOf(task) == HoursUntilDue(ParsedDueDate(task), now)

----------------------------------------------------------------------------
(* C1: between two clears of sent_reminders the Mail adapter returns       *)
(* success at most once for each (task id, window) pair, over any sequence *)
(* of passes.                                                              *)

C1_AtMostOneSuccessPerKey ==
    \A k \in Keys : mail_stats[k].oks <= 1

\* a second pass with the same `now` has gone through the tasks the
\* previous pass sent to, after a clear had emptied the set before
C1_Witness ==
    /\ LoopDone
    /\ prev.same
    /\ prev.ok # {}
    /\ \A k \in prev.ok : mail_stats[k].oks = 1
    /\ Cardinality(sent_reminders) < ReminderCeiling - 1

----------------------------------------------------------------------------
(* C2: a task whose status is 'completed' when it is fetched is never sent *)
(* a reminder: handling it calls the Mail adapter for no window and adds   *)
(* no ReminderKey, whatever its due_date and the contents of the set.      *)

C2_CompletedNeverReminded ==
    [][(AtTask /\ all_tasks[idx].status = "completed")
        => /\ sent_reminders' = sent_reminders
           /\ mail_calls' = mail_calls
           /\ mail_stats' = mail_stats
           /\ reminder_sent_count' = reminder_sent_count]_vars

\* a completed task with every field, due in an hour, with no key in the
\* set, has been handled by the pass
C2_Witness ==
    /\ pc = "loop"
    /\ idx = 2
    /\ all_tasks[1].status = "completed"
    /\ all_tasks[1].missing = "none"
    /\ all_tasks[1].due_date.form = "iso"
    /\ InPreDue(HoursOf(all_tasks[1]))
    /\ ReminderKey(all_tasks[1].id, "1h") \notin sent_reminders

----------------------------------------------------------------------------
(* C3 as stated: a second pass with the same `now` and the same fetched    *)
(* tasks calls the Mail adapter for no (task, window) whose send succeeded *)
(* in the first pass, and leaves sent_reminders equal to what the first    *)
(* pass left.                                                              *)

\* the step that ends a pass whose loop is done (lines 104-110)
EndsPass == LoopDone /\ pc' = "idle"

NoCallFor(keys) ==
    \A i \in 1..Len(mail_calls) : CallKey(mail_calls[i]) \notin keys

C3_Original ==
    [][(EndsPass /\ prev.same)
        => /\ NoCallFor(prev.ok)
           /\ sent_reminders' = prev.sent]_vars

(* C3 as amended: unless the cleanup of the first pass cleared the set,    *)
(* the second pass calls the Mail adapter for no (task, window) whose send *)
(* succeeded in the first pass; it leaves sent_reminders equal to what the *)
(* first pass left plus the keys of the sends that succeeded in the second *)
(* pass (sends the first pass failed or did not make), unless its own      *)
(* cleanup finds more than 1000 keys and clears the set.                   *)

C3_Idempotent ==
    [][(EndsPass /\ prev.same)
        => /\ ~prev.cleared => NoCallFor(prev.ok)
           /\ LET left == prev.sent \cup OkKeys(mail_calls) IN
              IF Cardinality(left) > ReminderCeiling
              THEN sent_reminders' = {}
              ELSE sent_reminders' = left]_vars

\* the second pass is through its loop; the first one had sent, and had
\* not cleared
C3_Witness ==
    /\ LoopDone
    /\ prev.same
    /\ ~prev.cleared
    /\ prev.ok # {}
    /\ Len(all_tasks) = 2

----------------------------------------------------------------------------
(* C4: a ReminderKey enters sent_reminders exactly when the Mail adapter   *)
(* call for that task and window returns success; on failure the set and  *)
(* the per-pass counter are unchanged, and a later pass that finds the     *)
(* task still inside the window can call the Mail adapter for it again.    *)

\* this step calls the Mail adapter
Calls == Len(mail_calls') = Len(mail_calls) + 1
TheCall == mail_calls'[Len(mail_calls')]

C4_KeyIffSuccess ==
    [][AtTask =>
        IF Calls
        THEN IF TheCall.ok
             THEN /\ CallKey(TheCall) \notin sent_reminders
                  /\ sent_reminders' = sent_reminders \cup {CallKey(TheCall)}
                  /\ reminder_sent_count' = reminder_sent_count + 1
             ELSE /\ sent_reminders' = sent_reminders
                  /\ reminder_sent_count' = reminder_sent_count
        ELSE /\ sent_reminders' = sent_reminders
             /\ reminder_sent_count' = reminder_sent_count]_vars

\* the task at hand is inside window w, and the last Mail adapter call
\* for (task, w) failed
RetryDue(w) ==
    /\ AtTask
    /\ Plain(all_tasks[idx])
    /\ WindowOf(HoursOf(all_tasks[idx])) = w
    /\ mail_stats[ReminderKey(all_tasks[idx].id, w)].last = "failed"

C4_FailureIsRetried ==
    \A w \in Windows :
        RetryDue(w) =>
            /\ ReminderKey(all_tasks[idx].id, w) \notin sent_reminders
            /\ ENABLED (ProcessTask /\ Calls /\ TheCall.window = w)

C4_KeyOnSuccessOnly == C4_KeyIffSuccess /\ []C4_FailureIsRetried

\* a pass comes to a task whose send failed in an earlier pass, still
\* inside the same window
C4_Witness ==
    /\ mail_calls = <<>>
    /\ \E w \in Windows : RetryDue(w)

----------------------------------------------------------------------------
(* C5: a failure while one task is handled (malformed due_date, missing    *)
(* field, owner-email lookup failure, Mail adapter failure) skips that     *)
(* task alone, with no key inserted: the pass goes on to the next task     *)
(* with the same list, the same `now` and the same dedup set, and ends     *)
(* only after the last task.                                               *)

C5_FailureSkipsOneTask ==
    [][/\ AtTask =>
            /\ pc' = "loop"
            /\ idx' = idx + 1
            /\ all_tasks' = all_tasks
            /\ now' = now
            /\ ~raised'
            /\ (~Calls \/ ~TheCall.ok) => sent_reminders' = sent_reminders
       /\ (pc = "loop" /\ pc' = "idle") => idx > Len(all_tasks)]_vars

\* the first task has a malformed due_date, and the second one has been
\* sent its reminder in the same pass
C5_Witness ==
    /\ LoopDone
    /\ Len(all_tasks) = 2
    /\ ParseRaises(all_tasks[1])
    /\ all_tasks[1].status # "completed"
    /\ Len(mail_calls) = 1
    /\ mail_calls[1].id = all_tasks[2].id
    /\ mail_calls[1].ok

----------------------------------------------------------------------------
(* C6: when the store fetch fails, the pass sends no email, leaves         *)
(* sent_reminders unchanged and lets no exception escape; the job stays    *)
(* registered and the next tick starts a new pass, which fetches again.    *)

C6_FetchFailureStep ==
    [][(pc = "fetch" /\ last_pass' = "fetch_failed")
        => /\ sent_reminders' = sent_reminders
           /\ mail_stats' = mail_stats
           /\ overdue_hist' = overdue_hist
           /\ mail_calls' = <<>>
           /\ ~raised'
           /\ jobs' = jobs
           /\ running' = running
           /\ pc' = "idle"]_vars

C6_NextTickRuns ==
    (pc = "idle" /\ last_pass = "fetch_failed")
        => /\ HasJob(jobs)
           /\ running
           /\ ~raised
           /\ ENABLED Tick

C6_FetchFailureAbortsOnePass == C6_FetchFailureStep /\ []C6_NextTickRuns

\* after a pass whose fetch failed, the next tick has started a pass that
\* is fetching, with keys in the dedup set
C6_Witness ==
    /\ pc = "fetch"
    /\ last_pass = "fetch_failed"
    /\ sent_reminders # {}

----------------------------------------------------------------------------
(* C7: for a non-completed task due at T whose owner email resolves and    *)
(* whose sends succeed, three passes at T-1h, T and T+1h make one Mail     *)
(* adapter call each, for the windows pre-due, due-now and overdue in that *)
(* order, three calls in total, and leave exactly the three keys of the    *)
(* task in sent_reminders.  (In the scenario every call succeeds, so the   *)
(* successes counted per key are the calls.)                               *)

\* the window of the scenario pass whose `now` is t
ScenarioWindow(t) ==
    IF t = DueT - 100 THEN "1h" ELSE IF t = DueT THEN "due" ELSE "overdue"

\* the windows of the passes run so far, the one at `now` included
WindowsUpTo(t) == {ScenarioWindow(p) : p \in {q \in ScenarioPoints : q <= t}}

CallsFor(task_id) ==
    {i \in 1..Len(mail_calls) : mail_calls[i].id = task_id}

TaskKeys(task_id) == {k \in sent_reminders : k[1] = task_id}

C7_ThreePasses ==
    \A i \in 1..Len(tasks) :
        Plain(tasks[i]) =>
            \* at the end of the loop of each pass: one call, for its window
            /\ LoopDone =>
                /\ Cardinality(CallsFor(tasks[i].id)) = 1
                /\ \A c \in CallsFor(tasks[i].id) :
                      /\ mail_calls[c].window = ScenarioWindow(now)
                      /\ mail_calls[c].ok
            \* after each pass: one call so far for each window passed, in
            \* the order of the windows, and their keys and no other
            /\ (pc = "idle" /\ last_pass = "done") =>
                /\ \A w \in Windows :
                      mail_stats[ReminderKey(tasks[i].id, w)].oks
                          = IF w \in WindowsUpTo(now) THEN 1 ELSE 0
                /\ TaskKeys(tasks[i].id)
                      = {ReminderKey(tasks[i].id, w) : w \in WindowsUpTo(now)}

\* the third pass has ended and the three keys of a task are in the set
C7_Witness ==
    /\ pc = "idle"
    /\ last_pass = "done"
    /\ now = DueT + 100
    /\ \E i \in 1..Len(tasks) :
          /\ Plain(tasks[i])
          /\ TaskKeys(tasks[i].id) = {ReminderKey(tasks[i].id, w) : w \in Windows}
          /\ \A w \in Windows : mail_stats[ReminderKey(tasks[i].id, w)].oks = 1

----------------------------------------------------------------------------
(* C8 as stated: for every non-completed task for which a pass ran while   *)
(* its time-to-due was inside the overdue window, once the task is past    *)
(* the window exactly one Mail adapter call has been made for its overdue  *)
(* window.                                                                 *)

PastOverdue(task) ==
    /\ task.status # "completed"
    /\ task.due_date.form = "iso"
    /\ overdue_hist[task.id].polled
    /\ pc = "idle"
    /\ HoursOf(task) < OverdueLo

C8_Original ==
    \A i \in 1..Len(tasks) :
        PastOverdue(tasks[i]) => overdue_hist[tasks[i].id].calls = 1

(* C8 as amended: for every such task, at most one overdue Mail adapter    *)
(* call returns success (between two clears) and no overdue call is made   *)
(* after a successful one; so there is exactly one call when the first     *)
(* call succeeds, none when no pass inside the window resolved the owner   *)
(* email, and more than one only when every call but the last failed.      *)

C8_NoCallAfterSuccess ==
    [][(Calls /\ TheCall.window = "overdue")
        => mail_stats[CallKey(TheCall)].last # "ok"]_vars

C8_OneSuccess ==
    \A i \in 1..Len(tasks) :
        LET st == mail_stats[ReminderKey(tasks[i].id, "overdue")]
            oh == overdue_hist[tasks[i].id]
        IN /\ st.oks <= 1
           /\ (st.last = "none") <=> (oh.calls = 0)
           /\ oh.calls > 0 => oh.polled

C8_OverdueSentOnce == C8_NoCallAfterSuccess /\ []C8_OneSuccess

\* a task is past its overdue window; the one overdue call made for it
\* succeeded, and a later pass inside the window made no second call
C8_Witness ==
    \E i \in 1..Len(tasks) :
        /\ PastOverdue(tasks[i])
        /\ overdue_hist[tasks[i].id].calls = 1
        /\ mail_stats[ReminderKey(tasks[i].id, "overdue")].last = "ok"

----------------------------------------------------------------------------
(* C9: the cleanup that follows the task loop clears sent_reminders        *)
(* entirely when it holds more than 1000 keys and leaves it untouched when *)
(* it holds 1000 or fewer; so the insertion of the 1001st key leads to a   *)
(* full clear, and the next pass can send again to a task that is still    *)
(* inside the same window.                                                 *)

C9_CleanupStep ==
    [][EndsPass =>
        IF Cardinality(sent_reminders) > 1000
        THEN sent_reminders' = {}
        ELSE sent_reminders' = sent_reminders]_vars

\* the task at hand was sent its reminder for window w by the previous
\* pass, whose cleanup cleared the set, and is still inside w
ResendDue(w) ==
    /\ AtTask
    /\ prev.cleared
    /\ Plain(all_tasks[idx])
    /\ WindowOf(HoursOf(all_tasks[idx])) = w
    /\ ReminderKey(all_tasks[idx].id, w) \in prev.ok

C9_SentAgainAfterClear ==
    \A w \in Windows :
        ResendDue(w) =>
            /\ ReminderKey(all_tasks[idx].id, w) \notin sent_reminders
            /\ ENABLED (ProcessTask /\ Calls /\ TheCall.window = w /\ TheCall.ok)

----------------------------------------------------------------------------
(* C10: the windows have inclusive bounds: pre-due iff 0.9 <= h <= 1.1,    *)
(* due-now iff -0.08 <= h <= 0.08, overdue iff -1.1 <= h <= -0.9 (h in     *)
(* hundredths of an hour here); every h matches at most one window,        *)
(* h = 1.00 is pre-due and h = 1.15 matches none.  In a pass the Mail      *)
(* adapter is called at most once per task, and only for the window that h *)
(* matches at the `now` of the pass.                                       *)

C10_Windows ==
    /\ \A h \in -MaxHours..MaxHours :
          /\ InPreDue(h) <=> (90 <= h /\ h <= 110)
          /\ InDueNow(h) <=> (-8 <= h /\ h <= 8)
          /\ InOverdue(h) <=> (-110 <= h /\ h <= -90)
          /\ ~(InPreDue(h) /\ InDueNow(h))
          /\ ~(InPreDue(h) /\ InOverdue(h))
          /\ ~(InDueNow(h) /\ InOverdue(h))
          /\ \A i \in TaskIds :
                Branch(h, i, {}) =
                    IF InPreDue(h) THEN "1h"
                    ELSE IF InDueNow(h) THEN "due"
                    ELSE IF InOverdue(h) THEN "overdue" ELSE "none"
    /\ InPreDue(100)
    /\ ~InPreDue(115) /\ ~InDueNow(115) /\ ~InOverdue(115)

C10_OneCallPerTask ==
    \A i, j \in 1..Len(mail_calls) :
        /\ mail_calls[i].id = mail_calls[j].id => i = j
        /\ \E n \in 1..Len(all_tasks) :
              /\ all_tasks[n].id = mail_calls[i].id
              /\ all_tasks[n].due_date.form = "iso"
              /\ mail_calls[i].window = WindowOf(HoursOf(all_tasks[n]))

C10_WindowClassification == C10_Windows /\ C10_OneCallPerTask

\* a pass that took its `now` 1.1 hours before the due date (the inclusive
\* upper bound) has called the Mail adapter for the pre-due window
C10_Witness ==
    /\ LoopDone
    /\ DueT - now = 110
    /\ Len(mail_calls) = 2
    /\ \A i \in 1..Len(mail_calls) : mail_calls[i].window = "1h"

----------------------------------------------------------------------------
(* C12: stop() never raises, whether the scheduler was never started, is   *)
(* started or is stopped already; so the shutdown path of the application, *)
(* which calls stop() on a scheduler that was never started, ends without  *)
(* an exception.                                                           *)

C12_StopNeverRaises ==
    [][Stop => /\ raised' = raised
               /\ (~running => /\ running' = running
                               /\ jobs' = jobs
                               /\ pc' = pc)]_vars

\* stop() has been called in each of the three lifecycle states
C12_Witness ==
    /\ stops = {"never_started", "started", "stopped"}
    /\ ~raised

----------------------------------------------------------------------------
(* C13: start() is idempotent: after any number n >= 1 of start() calls    *)
(* on the same scheduler exactly one job with the id 'task_reminder_check' *)
(* is registered, each tick starts one pass, and no start() call raises.   *)

C13_OneJob ==
    /\ Len(jobs) <= 1
    /\ running => jobs = <<JobId>>

C13_StartStep ==
    [][(Start \/ StartAgain)
        => /\ jobs' = <<JobId>>
           /\ running'
           /\ raised' = raised]_vars

C13_TickStartsOnePass ==
    [][(pc # "fetch" /\ pc' = "fetch") => instances' = instances + 1]_vars

C13_StartIdempotent == C13_StartStep /\ C13_TickStartsOnePass /\ []C13_OneJob

\* start() has been called on a running scheduler, and a tick after it has
\* started a pass
C13_Witness ==
    /\ restarted
    /\ running
    /\ pc = "fetch"
    /\ instances = 1

----------------------------------------------------------------------------
(* C14: at most one pass of check_task_reminders() is in progress at any   *)
(* time: a tick that fires while the previous pass is waiting on the store *)
(* fetch, the owner lookup or the mail send starts no second pass.         *)

C14_OneInstance ==
    /\ instances <= MaxInstances
    /\ instances = (IF pc = "idle" THEN 0 ELSE 1)
    /\ pc # "idle" => ~ENABLED Tick

C14_SkippedTickStep ==
    [][TickSkipped
        => /\ pc # "idle"
           /\ UNCHANGED <<pc, all_tasks, idx, now, reminder_sent_count>>
           /\ UNCHANGED <<sent_reminders, mail_calls, mail_stats, instances>>]_vars

C14_NoOverlappingPasses == C14_SkippedTickStep /\ []C14_OneInstance

\* a tick was skipped, and the pass it found is still suspended in the
\* owner lookup of its second task, with the key of the first in the set
C14_Witness ==
    /\ skipped
    /\ pc = "loop"
    /\ call = "lookup"
    /\ idx = 2
    /\ sent_reminders # {}
    /\ instances = 1

----------------------------------------------------------------------------
(* C15 as stated: while a pass is waiting on an external adapter call      *)
(* (store fetch, owner-email lookup, mail send), the service can still     *)
(* handle an HTTP request: no step of a pass holds the event loop for the  *)
(* duration of an external call.                                           *)

\* the pass is inside a call of an external adapter
InAdapterCall ==
    \/ pc = "fetch"
    \/ (pc = "loop" /\ call \in {"lookup", "mail"})

C15_Original == InAdapterCall => ENABLED RootRequest

----------------------------------------------------------------------------
(* C16 as stated: after stop() returns on a started scheduler, no new pass *)
(* starts; a pass that was in flight when stop() was called is not         *)
(* interrupted and runs to its end.                                        *)

C16_NoNewPass ==
    [][(~running /\ ~running') => ~(pc = "idle" /\ pc' # "idle")]_vars

C16_Original ==
    /\ C16_NoNewPass
    /\ [](pc # "cancelled" /\ last_pass # "cancelled")

(* C16 as amended: after stop() returns on a started scheduler, no new     *)
(* pass starts until start() is called again; a pass that was in flight    *)
(* when stop() was called either runs to its end, with its dedup           *)
(* insertions and its cleanup, or is cancelled at the await it is          *)
(* suspended in, after which it calls the Mail adapter no more, adds no    *)
(* key and skips the cleanup.                                              *)

C16_StopStep ==
    [][Stop
        => /\ ~running'
           /\ ~HasJob(jobs')
           /\ sent_reminders' = sent_reminders
           /\ UNCHANGED <<all_tasks, idx, now, reminder_sent_count, mail_calls, call>>
           /\ \/ pc' = pc
              \/ PassSuspended /\ pc' = "cancelled"]_vars

C16_CancelledStep ==
    [][pc = "cancelled"
        => /\ pc' \in {"cancelled", "idle"}
           /\ sent_reminders' = sent_reminders
           /\ mail_stats' = mail_stats]_vars

\* a pass that is not cancelled goes on without the scheduler
C16_PassGoesOn ==
    /\ pc = "fetch" => ENABLED FetchFail
    /\ (pc = "fetch" /\ tasks # <<>>) => ENABLED FetchReturnAt(LifePoints)
    /\ AtTask => ENABLED FinishTask
    /\ LoopDone => ENABLED LoopEnd

C16_StopLeavesPassAlone ==
    C16_NoNewPass /\ C16_StopStep /\ C16_CancelledStep /\ []C16_PassGoesOn

\* stop() came while the pass was suspended; the scheduler was not started
\* again, and the pass has run to its end: it sent, added its key and
\* cleaned up
C16_Witness ==
    /\ ~running
    /\ stop_at \in {"fetch", "lookup"}
    /\ pc = "idle"
    /\ last_pass = "done"
    /\ last_ok # {}
    /\ last_ok \subseteq sent_reminders

----------------------------------------------------------------------------
(* Claims about the application: startup, mail, events, owners, tokens     *)

\* C11 (as claimed): once the application has started, the reminder check
\* job is registered with a running scheduler, so that passes start on the
\* interval without any request.
C11_Original ==
    app = "up" => (running /\ HasJob(jobs))

\* a step in which a route handles a request
Handled == last_req = NoRequest /\ last_req' # NoRequest

\* the call of send_task_reminder the reminder route made for the request
\* in last_req agrees with the contract of C17
C17_RouteCall ==
    last_req.mail.called =>
        /\ ~last_req.mail.raised
        /\ (~creds => ~last_req.mail.result /\ ~last_req.mail.dialled)
        /\ (~last_req.mail.renders \/ last_req.env.smtp # "ok"
                => ~last_req.mail.result)
        /\ (last_req.mail.result => last_req.mail.handed)
        /\ (last_req.status = 200 <=> last_req.mail.result)

\* C17: send_task_reminder never raises to its caller: it returns false
\* without opening a connection when the credentials are not set, false when
\* the rendering or any SMTP step fails, and true only when the message was
\* handed to the SMTP server.  This holds of the call each reminder request
\* makes and, whenever the service is ready for a request, of the call on
\* every task record, with and without credentials, whatever step of the
\* SMTP exchange fails.
C17_SendNeverRaises ==
    /\ C17_RouteCall
    /\ last_req = NoRequest =>
        \A has_creds \in BOOLEAN, task \in TaskRecords, smtp \in SmtpOutcomes :
            LET sent == SendTaskReminder(has_creds, task, smtp) IN
            /\ ~sent.raised
            /\ (~has_creds => ~sent.result /\ ~sent.dialled)
            /\ (RenderRaises(task) \/ smtp # "ok" => ~sent.result)
            /\ (sent.result => sent.handed)

\* the reminder route called send_task_reminder with credentials set, the
\* SMTP login failed, and the call returned false
C17_Witness ==
    /\ last_req.mail.called
    /\ creds
    /\ last_req.env.smtp = "login"
    /\ last_req.mail.dialled
    /\ ~last_req.mail.result
    /\ last_req.status = 500

\* publish_task_event raised nothing into the route, and published only
\* with the connected flag set
C18_PublishSafe ==
    /\ ~last_req.pub_raised
    /\ (last_req.event # 0 => last_req.conn)

\* the response and the store mutation of the request just handled are the
\* same for every value of the connected flag and every answer of the broker
C18_BrokerIndependent ==
    Handled =>
        \A conn \in BOOLEAN, broker \in BrokerOutcomes :
            LET r == Handle(last_req'.req, [last_req'.env EXCEPT !.broker = broker],
                            tasks, owners, conn, creds)
            IN /\ r.status = last_req'.status
               /\ r.returned = last_req'.returned
               /\ r.tasks = tasks'
               /\ r.owners = owners'

\* C18: publish_task_event never raises to its caller and publishes nothing
\* while the connected flag is false; a create, update or delete request
\* gets the same response and makes the same store mutation whatever the
\* connection state and the answer of the broker.
C18_PublishNeverDecides ==
    /\ []C18_PublishSafe
    /\ [][C18_BrokerIndependent]_vars

\* a task was created and answered 201 while the client was not connected,
\* and no event was published
C18_Witness ==
    /\ last_req.req.route = "create"
    /\ last_req.status = 201
    /\ ~last_req.conn
    /\ last_req.event = 0
    /\ \E i \in 1..Len(tasks) : tasks[i].id = last_req.req.id

\* the rows of tbl that do not belong to user, in table order
RowsOfOthers(tbl, own, user) ==
    LET NotOwned(t) == own[t.id] # user IN SelectSeq(tbl, NotOwned)

\* the request just handled for user U returned, changed, announced and
\* mailed only rows of U
C19_OwnRowsOnly ==
    Handled /\ last_req'.user # NoUser =>
        LET U == last_req'.user IN
        /\ \A id \in last_req'.returned : owners'[id] = U
        /\ RowsOfOthers(tasks', owners', U) = RowsOfOthers(tasks, owners, U)
        /\ \A id \in TaskIds :
            owners'[id] # owners[id] => owners[id] = NoUser /\ owners'[id] = U
        /\ (last_req'.event # 0 => owners'[last_req'.event] = U)
        /\ (last_req'.mail.called => owners[last_req'.mail.about] = U)

\* the request just handled named a row of another user
NamedForeign ==
    /\ Handled
    /\ last_req'.user # NoUser
    /\ last_req'.req.route \in {"get", "update", "delete", "remind"}
    /\ \E i \in 1..Len(tasks) :
        tasks[i].id = last_req'.req.id /\ owners[tasks[i].id] # last_req'.user

\* a request naming a row of another user changes nothing, publishes
\* nothing, mails nothing and returns nothing, and it is answered 404 when
\* the store answered the lookup (500 when the lookup failed)
C19_ForeignIsNotFound ==
    NamedForeign =>
        /\ tasks' = tasks
        /\ owners' = owners
        /\ last_req'.returned = {}
        /\ last_req'.event = 0
        /\ ~last_req'.mail.called
        /\ last_req'.status = IF last_req'.env.store_ok THEN 404 ELSE 500

\* C19: task access is partitioned by owner.  In every sequence of list,
\* get, create, update, delete and send-reminder requests by authenticated
\* users, a request by user U returns, mutates, deletes, announces and
\* mails only tasks whose auth_users_id is U; a get, update, delete or
\* send-reminder naming a task of another user is answered 404 by a store
\* that answers the lookup, and causes no store mutation, no event and no
\* email.
C19_PartitionedByOwner ==
    /\ [][C19_OwnRowsOnly]_vars
    /\ [][C19_ForeignIsNotFound]_vars

\* u1 asked to delete the task of u2, was answered 404, and the task is
\* still in the table
C19_Witness ==
    /\ last_req.req.route = "delete"
    /\ last_req.user = "u1"
    /\ last_req.status = 404
    /\ owners[last_req.req.id] = "u2"
    /\ \E i \in 1..Len(tasks) : tasks[i].id = last_req.req.id

\* the request in last_req was admitted exactly when its token decodes,
\* has type access and carries a sub; a rejected request returned nothing,
\* published nothing and mailed nothing
C20_AdmittedIff ==
    last_req # NoRequest =>
        LET token == last_req.req.token IN
        /\ last_req.status # 401 <=>
            (token.valid /\ token.type = "access" /\ token.sub # NoUser)
        /\ (last_req.status # 401 => last_req.user = token.sub)
        /\ (last_req.status = 401 =>
                /\ last_req.user = NoUser
                /\ last_req.returned = {}
                /\ last_req.event = 0
                /\ ~last_req.mail.called)
        /\ \A u \in Users : token = RefreshToken(u) => last_req.status = 401

\* a rejected request leaves the store as it was
C20_RejectedStep ==
    Handled /\ last_req'.status = 401 => tasks' = tasks /\ owners' = owners

\* C20: get_current_user admits a request only if its token decodes and
\* verifies, its type is access and it carries a sub; every other token is
\* answered 401 and the body of the route does not run.  The refresh token
\* register and login issue never authenticates a request.
C20_OnlyAccessTokens ==
    /\ []C20_AdmittedIff
    /\ [][C20_RejectedStep]_vars

\* u1 asked to delete with the refresh token login issued, was answered
\* 401, and the task of u1 the request named is still in the table
C20_Witness ==
    /\ last_req.req.route = "delete"
    /\ last_req.req.token = RefreshToken("u1")
    /\ last_req.status = 401
    /\ owners[last_req.req.id] = "u1"
    /\ \E i \in 1..Len(tasks) : tasks[i].id = last_req.req.id

----------------------------------------------------------------------------
(* The service with its scheduler started: passes and requests side by    *)
(* side.  A request is handled while the pass does not hold the loop.     *)

\* the instants a pass may read from the clock: inside the pre-due window
\* and at the due date
ServicePoints == {DueT - 100, DueT}

\* one open task, of user u1; the credentials are set
InitService ==
    /\ tasks \in {<<t>> : t \in {r \in TaskRecords : Plain(r) /\ r.id = 1}}
    /\ owners = [i \in TaskIds |-> IF i = 1 THEN "u1" ELSE NoUser]
    /\ creds = TRUE
    /\ app = "up"
    /\ mqtt_loop = FALSE
    /\ connected = FALSE
    /\ last_req = NoRequest
    /\ inflight = NoInflight
    /\ running = FALSE
    /\ jobs = <<>>
    /\ sent_reminders = {}
    /\ pc = "idle"
    /\ all_tasks = <<>>
    /\ idx = 1
    /\ now = DueT - 115
    /\ reminder_sent_count = 0
    /\ raised = FALSE
    /\ last_pass = "none"
    /\ mail_calls = <<>>
    /\ mail_stats = NoStats
    /\ overdue_hist = NoOverdue
    /\ last_ok = {}
    /\ cleared = FALSE
    /\ prev = NoPrev
    /\ instances = 0
    /\ call = "none"
    /\ started_once = FALSE
    /\ stops = {}
    /\ stop_at = "none"
    /\ skipped = FALSE
    /\ restarted = FALSE

NextService ==
    \/ Start
    \/ Tick
    \/ FetchFail
    \/ FetchEmpty
    \/ FetchReturnAt(ServicePoints)
    \/ ProcessTaskWith({"email"}, BOOLEAN)
    \/ LoopEnd
    \/ UpdateTaskRequest
    \/ DeleteTaskRequest
    \/ SendReminderRequest
    \/ TestEmailRequest
    \/ Respond

SpecService == InitService /\ [][NextService]_vars

\* a request handled by a route leaves the dedup set as it was
C21_RequestStep ==
    Handled => sent_reminders' = sent_reminders

\* every key of the dedup set was put there by a send of a pass that
\* succeeded
C21_KeysFromPasses ==
    \A k \in sent_reminders : mail_stats[k].oks > 0

\* the iteration of a pass for a task that lies in a window for which no
\* send of a pass has succeeded calls the Mail adapter, whatever manual
\* reminders were sent before
C21_ScheduledStillSent ==
    (pc = "loop" /\ pc' = "loop" /\ idx' = idx + 1) =>
        LET task == all_tasks[idx]
            w == WindowOf(HoursUntilDue(ParsedDueDate(task), now))
        IN (~SkipTask(task) /\ w # "none" /\ mail_stats[ReminderKey(task.id, w)].oks = 0)
            => /\ Len(mail_calls') = Len(mail_calls) + 1
               /\ mail_calls'[Len(mail_calls')].id = task.id
               /\ mail_calls'[Len(mail_calls')].window = w

\* C21: the dedup set is read and written by the pass of the scheduler
\* only.  No request to the reminder route, the test-email route or a task
\* route changes it, every key in it comes from a successful send of a
\* pass, and a manual reminder for a task does not keep the pass from
\* sending the scheduled reminder of that task.
C21_DedupOwnedByPass ==
    /\ [][C21_RequestStep]_vars
    /\ []C21_KeysFromPasses
    /\ [][C21_ScheduledStillSent]_vars

\* the owner was sent a manual reminder for task 1, the dedup set did not
\* get a key from it, and the pass that ran next has sent the scheduled
\* reminder of task 1
C21_Witness ==
    /\ last_req.req.route = "remind"
    /\ last_req.status = 200
    /\ last_req.mail.about = 1
    /\ pc = "loop"
    /\ Len(mail_calls) = 1
    /\ mail_calls[1].id = 1
    /\ mail_calls[1].ok
    /\ mail_stats[ReminderKey(1, mail_calls[1].window)].oks = 1

----------------------------------------------------------------------------
(* due_date strings with a UTC offset, lines 41-49 *)

\* the offsets of the model, in hundredths of an hour: 'Z', '+05:30', '-05:00'
Offsets == {0, 550, -500}

\* ISO strings that all denote the instant DueT on the UTC timeline: the
\* date and time fields of the string read `wall`, its offset is `offset`
OffsetDueDates ==
    {[form |-> "iso", wall |-> DueT + o, offset |-> o] : o \in Offsets}

\* the instant on the UTC timeline an ISO string with an offset denotes
Instant(d) == d.wall - d.offset

\* TaskScheduler.__init__ and a service that has taken no request: all but
\* the rows of the table
FreshScheduler ==
    /\ running = FALSE
    /\ jobs = <<>>
    /\ sent_reminders = {}
    /\ pc = "idle"
    /\ all_tasks = <<>>
    /\ idx = 1
    /\ now = DueT - 115
    /\ reminder_sent_count = 0
    /\ raised = FALSE
    /\ last_pass = "none"
    /\ mail_calls = <<>>
    /\ mail_stats = NoStats
    /\ overdue_hist = NoOverdue
    /\ last_ok = {}
    /\ cleared = FALSE
    /\ prev = NoPrev
    /\ instances = 0
    /\ call = "none"
    /\ started_once = FALSE
    /\ stops = {}
    /\ stop_at = "none"
    /\ skipped = FALSE
    /\ restarted = FALSE
    /\ app = "up"
    /\ mqtt_loop = FALSE
    /\ connected = FALSE
    /\ owners = [i \in TaskIds |-> "none"]
    /\ creds = TRUE
    /\ last_req = NoRequest
    /\ inflight = NoInflight

\* no task, or two open tasks whose due_date strings carry offsets
InitOffsets ==
    /\ tasks \in {<<>>} \cup
                 {<<[id |-> 1, status |-> "todo", due_date |-> d1, missing |-> "none"],
                    [id |-> 2, status |-> "todo", due_date |-> d2, missing |-> "none"]>> :
                  d1 \in OffsetDueDates, d2 \in OffsetDueDates}
    /\ FreshScheduler

\* the passes of the three-pass scenario on these tasks: one hour before
\* the instant the strings denote, at it, and one hour after it, on a
\* server whose clock reads UTC
SpecOffsets == InitOffsets /\ [][NextScenario]_vars

\* C22 (as claimed): two due_date strings that denote the same instant with
\* different UTC offsets have the same time-to-due and fall into the same
\* window in a pass.
C22_Original ==
    pc = "loop" =>
        \A i, j \in 1..Len(all_tasks) :
            Instant(all_tasks[i].due_date) = Instant(all_tasks[j].due_date) =>
                LET hi == HoursUntilDue(ParsedDueDate(all_tasks[i]), now)
                    hj == HoursUntilDue(ParsedDueDate(all_tasks[j]), now)
                IN hi = hj /\ WindowOf(hi) = WindowOf(hj)

----------------------------------------------------------------------------
(* Claims about the owner-email lookup *)

\* C23 (as claimed): the owner-email lookup for a task is made only after
\* the task was classified into a window and its ReminderKey found absent
\* from the dedup set.
C23_Original ==
    (pc = "loop" /\ call = "lookup") =>
        LET task == all_tasks[idx]
            h == HoursUntilDue(ParsedDueDate(task), now)
        IN Branch(h, task.id, sent_reminders) # "none"

----------------------------------------------------------------------------
(* _get_user_email, lines 115-149 *)

\* the answer to the profiles query (line 123): 200 with a row, 200 with
\* an empty list, another status, or the request raises
ProfileOutcomes == {"ok", "missing", "non200", "error"}

\* the answer to the admin users query (line 136): 200 with an email, 200
\* with no email, another status, or the request raises
AuthUserOutcomes == {"ok", "no_email", "non200", "error"}

\* what _get_user_email returns, as an element of UserData; the handler of
\* line 146 logs every Exception and line 149 returns {}
GetUserEmail(profile, auth_user) ==
    IF profile = "ok" /\ auth_user = "ok" THEN "email"
    ELSE IF profile = "ok" /\ auth_user = "no_email" THEN "no_email"
    ELSE "empty"

\* an owner whose email resolves, and one whose email does not
LookupAnswers(resolvable) ==
    {GetUserEmail(p, a) : <<p, a>> \in
        {q \in ProfileOutcomes \X AuthUserOutcomes :
            (q[1] = "ok" /\ q[2] = "ok") <=> resolvable}}

\* the lookup of line 65 answers and the iteration runs to its end; the
\* email of the owner of task 1 cannot be resolved, that of the owner of
\* any other task can
FinishLookup ==
    /\ pc = "loop"
    /\ idx <= Len(all_tasks)
    /\ call = "lookup"
    /\ ProcessTaskWith(LookupAnswers(all_tasks[idx].id # 1), BOOLEAN)

NextUnresolved ==
    \/ Start
    \/ Tick
    \/ FetchFail
    \/ FetchEmpty
    \/ FetchReturnAt(LifePoints)
    \/ BeginLookup
    \/ FinishLookup
    \/ LoopEnd

SpecUnresolved == InitLifecycle /\ [][NextUnresolved]_vars

\* _get_user_email answers an unresolvable owner with {} or with a record
\* without email, which the tests of lines 66-71 both skip
C24_LookupAnswer ==
    \A p \in ProfileOutcomes, a \in AuthUserOutcomes :
        /\ GetUserEmail(p, a) \in UserData
        /\ (EmailResolved(GetUserEmail(p, a)) <=> (p = "ok" /\ a = "ok"))

\* no Mail adapter call was made and no key was inserted for task 1, and
\* nothing was raised
C24_NothingSent ==
    /\ ~raised
    /\ \A i \in 1..Len(mail_calls) : mail_calls[i].id # 1
    /\ \A w \in Windows :
        /\ ReminderKey(1, w) \notin sent_reminders
        /\ mail_stats[ReminderKey(1, w)].last = "none"

\* every iteration of every pass for a dated open task reaches the lookup,
\* whatever the earlier lookups answered
C24_LooksUpAgain ==
    (pc = "loop" /\ idx <= Len(all_tasks) /\ call = "none") => ENABLED BeginLookup

\* the iteration for task 1 ends with `continue`: the pass goes on with the
\* next task of the batch
C24_SkipStep ==
    (pc = "loop" /\ call = "lookup" /\ idx <= Len(all_tasks) /\ call' = "none") =>
        (all_tasks[idx].id = 1 =>
            /\ pc' = "loop"
            /\ idx' = idx + 1
            /\ all_tasks' = all_tasks
            /\ sent_reminders' = sent_reminders
            /\ mail_calls' = mail_calls
            /\ reminder_sent_count' = reminder_sent_count)

\* C24: when the email of the owner cannot be resolved (profile missing,
\* non-200 response, request error, no email), _get_user_email answers
\* without raising, the task is skipped with no Mail adapter call and no
\* ReminderKey, the pass goes on with the rest of the batch, and a later
\* pass inside the same window makes the lookup again.
C24_UnresolvedIsSkipped ==
    /\ []C24_LookupAnswer
    /\ []C24_NothingSent
    /\ []C24_LooksUpAgain
    /\ [][C24_SkipStep]_vars

\* an earlier pass skipped task 1 and went on to send the 1h reminder of
\* task 2; a later pass inside the same window is in the lookup for task 1
\* again
C24_Witness ==
    /\ pc = "loop"
    /\ call = "lookup"
    /\ idx = 1
    /\ Len(all_tasks) = 2
    /\ all_tasks[1].id = 1
    /\ WindowOf(HoursUntilDue(ParsedDueDate(all_tasks[1]), now)) = "1h"
    /\ ReminderKey(2, "1h") \in sent_reminders
    /\ ReminderKey(1, "1h") \notin sent_reminders

----------------------------------------------------------------------------
(* Claims about what a pass hands to the Mail adapter and to the store *)

\* the task handed to the Mail adapter carries the title of the row, with
\* the prefix in front of it for an overdue send and for no other
C25_Titles ==
    \A i \in 1..Len(mail_calls) :
        LET c == mail_calls[i] IN
        \E n \in 1..Len(all_tasks) :
            /\ all_tasks[n].id = c.id
            /\ c.title = IF c.window = "overdue"
                         THEN <<"OVERDUE: ">> \o TitleOf(all_tasks[n])
                         ELSE TitleOf(all_tasks[n])

\* a step of a pass leaves the table as it is, and a step inside the loop
\* leaves the fetched records as they are
C25_ReadOnlyStep ==
    /\ (pc # "idle" \/ pc' # "idle") => tasks' = tasks
    /\ (pc = "loop" /\ pc' = "loop") => all_tasks' = all_tasks

\* C25: for an overdue send the Mail adapter receives a copy of the task
\* whose title is the original title prefixed with 'OVERDUE: '; the fetched
\* record keeps its title, and no step of a pass inserts, updates or
\* deletes a row of the store.
C25_OverdueCopy ==
    /\ []C25_Titles
    /\ [][C25_ReadOnlyStep]_vars

\* an overdue reminder was sent with the prefixed title, and the fetched
\* record and the row of the table are what the store returned
C25_Witness ==
    /\ pc = "loop"
    /\ Len(mail_calls) >= 1
    /\ mail_calls[Len(mail_calls)].window = "overdue"
    /\ mail_calls[Len(mail_calls)].ok
    /\ mail_calls[Len(mail_calls)].title = <<"OVERDUE: ", mail_calls[Len(mail_calls)].id>>
    /\ all_tasks = tasks

----------------------------------------------------------------------------
(* C26: change events of the task routes *)

\* the routes that publish a change event
MutatingRoutes == {"create", "update", "delete"}

\* the statuses with which a task route reports success
SuccessStatuses == {200, 201, 204}

\* the store mutation of the request just handled was applied
MutationApplied ==
    LET q == last_req'.req IN
    IF q.route = "create"
    THEN /\ owners'[q.id] = last_req'.user
         /\ \E i \in 1..Len(tasks') : tasks'[i].id = q.id
    ELSE IF q.route = "update"
    THEN /\ owners[q.id] = last_req'.user
         /\ \E i \in 1..Len(tasks') :
                tasks'[i].id = q.id /\ tasks'[i].status = q.arg
    ELSE /\ owners[q.id] = last_req'.user
         /\ \E i \in 1..Len(tasks) : tasks[i].id = q.id
         /\ \A i \in 1..Len(tasks') : tasks'[i].id # q.id

\* (original statement) every successful create, update or delete request
\* published exactly one event
C26_Original ==
    [][Handled /\ last_req'.req.route \in MutatingRoutes
               /\ last_req'.status \in SuccessStatuses
           => last_req'.event # 0]_vars

\* a route called publish_task_event only after its mutation was applied,
\* with the event type of its operation and the caller's topic
C26_CallAfterMutation ==
    Handled /\ last_req'.pub.calls > 0 =>
        /\ last_req'.req.route \in MutatingRoutes
        /\ last_req'.env.store_ok
        /\ MutationApplied
        /\ last_req'.pub.calls = 1
        /\ last_req'.pub.type =
              (CASE last_req'.req.route = "create" -> "created"
                 [] last_req'.req.route = "update" -> "updated"
                 [] last_req'.req.route = "delete" -> "deleted")
        /\ last_req'.pub.topic = <<"prefix", "user", last_req'.user, "tasks">>

\* a successful request made the call; the call published an event exactly
\* when the client was connected and the broker accepted the message
C26_OneCallPerSuccess ==
    Handled /\ last_req'.req.route \in MutatingRoutes =>
        /\ last_req'.status \in SuccessStatuses => last_req'.pub.calls = 1
        /\ last_req'.event # 0 <=>
              /\ last_req'.pub.calls = 1
              /\ last_req'.conn
              /\ last_req'.env.broker = "ok"
        /\ last_req'.event # 0 => last_req'.event = last_req'.req.id

\* a request that ended in 400, 401 or 404, or whose store call failed, made
\* no call, published nothing and changed no row
C26_NoEventOnFailure ==
    Handled /\ (last_req'.status \in {400, 401, 404} \/ ~last_req'.env.store_ok) =>
        /\ last_req'.pub.calls = 0
        /\ last_req'.event = 0
        /\ tasks' = tasks
        /\ owners' = owners

\* C26 (amended): a task route calls publish_task_event exactly once per
\* successful request and only after its store mutation was applied, with
\* the event type of the operation (create -> created, update -> updated,
\* delete -> deleted) and the topic prefix/user/<caller id>/tasks; the call
\* publishes one event when the client is connected and the broker accepts
\* it and none otherwise; a request that ends in 400, 404 or a store error
\* makes no call and publishes nothing.
C26_PublishAfterMutation ==
    /\ [][C26_CallAfterMutation]_vars
    /\ [][C26_OneCallPerSuccess]_vars
    /\ [][C26_NoEventOnFailure]_vars

\* a delete answered 204 and its event was published on the caller's topic
C26_Witness ==
    /\ last_req.req.route = "delete"
    /\ last_req.status = 204
    /\ last_req.event = last_req.req.id
    /\ last_req.pub = [calls |-> 1, type |-> "deleted",
                       topic |-> <<"prefix", "user", last_req.user, "tasks">>]
    /\ \A i \in 1..Len(tasks) : tasks[i].id # last_req.req.id

----------------------------------------------------------------------------
(* update_task and delete_task as two store round trips each (tasks.py     *)
(* lines 161-164 and 186-190, lines 222-225 and 234-237): every await      *)
(* hands the event loop to the other handlers, so the existence check of   *)
(* one request and its mutation can be separated by the round trips of     *)
(* other requests.                                                         *)

\* the handler of slot s has finished with this status and event
Done(q, status, event, gone) ==
    [q EXCEPT !.stage = "done", !.status = status, !.event = event, !.gone = gone]

\* tasks.py lines 161-179 and 222-232: the owner's request for task 1
\* arrives and its existence check is answered by the store
CheckExisting(route) ==
    /\ app = "up"
    /\ \E s \in Slots, arg \in ArgsFor(route), store_ok \in BOOLEAN :
        /\ inflight[s].stage = "free"
        /\ LET user == GetCurrentUser(AccessToken("u1")).user_id
               q == [FreeSlot EXCEPT !.route = route, !.id = 1, !.arg = arg,
                                     !.user = user]
               rows == OwnedRows(tasks, owners, user, 1)
           IN inflight' = [inflight EXCEPT ![s] =
                  IF ~store_ok THEN Done(q, 500, "none", FALSE)
                  ELSE IF rows = {} THEN Done(q, 404, "none", FALSE)
                  ELSE IF arg = "unset" THEN Done(q, 400, "none", FALSE)
                  ELSE [q EXCEPT !.stage = "checked"]]
    /\ UNCHANGED <<tasks, running, jobs, sent_reminders, raised>>
    /\ UNCHANGED <<instances, call, started_once>>
    /\ UNCHANGED <<app, mqtt_loop, connected, owners, creds, last_req>>
    /\ UNCHANGED pass_vars
    /\ UNCHANGED hist_vars
    /\ UNCHANGED life_hist

CheckBeforeUpdate == CheckExisting("update")
CheckBeforeDelete == CheckExisting("delete")

\* tasks.py lines 186-203 with database.py lines 74-103: the PATCH reaches
\* the store; no matching row gives [] and update returns {}, which the route
\* answers with 500
MutateUpdate ==
    /\ app = "up"
    /\ \E s \in Slots, store_ok \in BOOLEAN, broker \in BrokerOutcomes :
        LET q == inflight[s]
            rows == OwnedRows(tasks, owners, q.user, q.id)
            pub == PublishTaskEvent(connected, broker)
        IN /\ q.stage = "checked"
           /\ q.route = "update"
           /\ IF ~store_ok
              THEN /\ tasks' = tasks
                   /\ inflight' = [inflight EXCEPT ![s] = Done(q, 500, "none", FALSE)]
              ELSE IF rows = {}
              THEN /\ tasks' = tasks
                   /\ inflight' = [inflight EXCEPT ![s] = Done(q, 500, "none", TRUE)]
              ELSE /\ tasks' = [i \in 1..Len(tasks) |->
                                  IF i \in rows THEN [tasks[i] EXCEPT !.status = q.arg]
                                  ELSE tasks[i]]
                   /\ inflight' = [inflight EXCEPT ![s] =
                        Done(q, IF pub.raised \/ \E i \in rows : ResponseRaises(tasks[i])
                                THEN 500 ELSE 200,
                             IF pub.published THEN EventType(q.route) ELSE "none",
                             FALSE)]
    /\ UNCHANGED <<running, jobs, sent_reminders, raised>>
    /\ UNCHANGED <<instances, call, started_once>>
    /\ UNCHANGED <<app, mqtt_loop, connected, owners, creds, last_req>>
    /\ UNCHANGED pass_vars
    /\ UNCHANGED hist_vars
    /\ UNCHANGED life_hist

\* tasks.py lines 234-243 with database.py lines 105-127: the DELETE reaches
\* the store; delete returns True whether or not a row matched, and the
\* route publishes and answers 204
MutateDelete ==
    /\ app = "up"
    /\ \E s \in Slots, store_ok \in BOOLEAN, broker \in BrokerOutcomes :
        LET q == inflight[s]
            rows == OwnedRows(tasks, owners, q.user, q.id)
            Kept(t) == \A i \in rows : tasks[i].id # t.id
            pub == PublishTaskEvent(connected, broker)
        IN /\ q.stage = "checked"
           /\ q.route = "delete"
           /\ IF ~store_ok
              THEN /\ tasks' = tasks
                   /\ inflight' = [inflight EXCEPT ![s] = Done(q, 500, "none", FALSE)]
              ELSE /\ tasks' = SelectSeq(tasks, Kept)
                   /\ inflight' = [inflight EXCEPT ![s] =
                        Done(q, IF pub.raised THEN 500 ELSE 204,
                             IF pub.published THEN EventType(q.route) ELSE "none",
                             rows = {})]
    /\ UNCHANGED <<running, jobs, sent_reminders, raised>>
    /\ UNCHANGED <<instances, call, started_once>>
    /\ UNCHANGED <<app, mqtt_loop, connected, owners, creds, last_req>>
    /\ UNCHANGED pass_vars
    /\ UNCHANGED hist_vars
    /\ UNCHANGED life_hist

\* the service is up with its MQTT loop started, and user u1 owns task 1
InitRace ==
    /\ tasks \in {<<t>> : t \in {r \in TaskRecords : Plain(r) /\ r.id = 1}}
    /\ owners = [i \in TaskIds |-> IF i = 1 THEN "u1" ELSE NoUser]
    /\ creds = TRUE
    /\ app = "up"
    /\ mqtt_loop = TRUE
    /\ connected = FALSE
    /\ last_req = NoRequest
    /\ inflight = NoInflight
    /\ running = FALSE
    /\ jobs = <<>>
    /\ sent_reminders = {}
    /\ pc = "idle"
    /\ all_tasks = <<>>
    /\ idx = 1
    /\ now = DueT - 115
    /\ reminder_sent_count = 0
    /\ raised = FALSE
    /\ last_pass = "none"
    /\ mail_calls = <<>>
    /\ mail_stats = NoStats
    /\ overdue_hist = NoOverdue
    /\ last_ok = {}
    /\ cleared = FALSE
    /\ prev = NoPrev
    /\ instances = 0
    /\ call = "none"
    /\ started_once = FALSE
    /\ stops = {}
    /\ stop_at = "none"
    /\ skipped = FALSE
    /\ restarted = FALSE

NextRace ==
    \/ CheckBeforeUpdate
    \/ CheckBeforeDelete
    \/ MutateUpdate
    \/ MutateDelete
    \/ OnConnect
    \/ OnDisconnect

SpecRace == InitRace /\ [][NextRace]_vars

\* C27 (original statement): under any interleaving of the owner's update
\* and delete requests on one task, a 'deleted' event is published at most
\* once for the task id, and a request whose mutation found the task already
\* gone answered 404 and published nothing.
C27_Original ==
    /\ Cardinality({s \in Slots : inflight[s].event = "deleted"}) <= 1
    /\ \A s \in Slots :
        inflight[s].stage = "done" /\ inflight[s].gone =>
            /\ inflight[s].status = 404
            /\ inflight[s].event = "none"

----------------------------------------------------------------------------
(* The statuses a task can carry (models/task.py line 9) and the pass *)

\* TaskBase.status: pattern ^(todo|in_progress|completed|archived)$
AllStatuses == {"todo", "in_progress", "completed", "archived"}

\* a row with a due date and every field, in any status
StatusRows ==
    [id : TaskIds, status : AllStatuses,
     due_date : {[form |-> "iso", wall |-> DueT]}, missing : {"none"}]

\* an empty table, or one or two such rows with distinct ids
StatusTables ==
    {<<>>} \cup {<<t>> : t \in StatusRows}
    \cup {p \in StatusRows \X StatusRows : p[1].id < p[2].id}

\* times of the passes: before every window, inside the 1h window, at the
\* due date, one hour past it
StatusPoints == {DueT - 115, DueT - 100, DueT, DueT + 100}

InitStatuses ==
    /\ FreshScheduler
    /\ tasks \in StatusTables

NextStatuses ==
    \/ Start
    \/ Tick
    \/ FetchFail
    \/ FetchEmpty
    \/ FetchReturnAt(StatusPoints)
    \/ ProcessTaskWith({"email"}, BOOLEAN)
    \/ LoopEnd

SpecStatuses == InitStatuses /\ [][NextStatuses]_vars

\* the loop has taken the task at idx
C28_Processed ==
    /\ pc = "loop"
    /\ idx <= Len(all_tasks)
    /\ idx' = idx + 1

\* a task in any status but 'completed', with its due date inside a window
\* and no key in the dedup set, got one call of the Mail adapter for that
\* window, and the key on success
C28_OpenOrArchivedSent ==
    C28_Processed =>
        LET task == all_tasks[idx]
            w == Branch(HoursUntilDue(ParsedDueDate(task), now), task.id, sent_reminders)
        IN task.status # "completed" /\ w # "none" =>
            /\ Len(mail_calls') = Len(mail_calls) + 1
            /\ mail_calls'[Len(mail_calls')].id = task.id
            /\ mail_calls'[Len(mail_calls')].window = w
            /\ mail_calls'[Len(mail_calls')].ok
                  <=> ReminderKey(task.id, w) \in sent_reminders'

\* a completed task got no call and no key
C28_CompletedSkipped ==
    C28_Processed /\ all_tasks[idx].status = "completed" =>
        /\ mail_calls' = mail_calls
        /\ sent_reminders' = sent_reminders

\* the status decides nothing but the 'completed' test: the loop treats a
\* row as it treats the same row in status 'todo'
C28_StatusBlind ==
    \A t \in StatusRows :
        t.status # "completed" => (SkipTask(t) <=> SkipTask([t EXCEPT !.status = "todo"]))

\* C28: only status 'completed' excludes a task from reminders: a task in
\* status 'archived', 'todo' or 'in_progress' whose due date is inside a
\* window, whose owner's email resolves and whose key is not in the dedup
\* set is sent the reminder of that window by the pass.
C28_OnlyCompletedExcluded ==
    /\ [][C28_OpenOrArchivedSent]_vars
    /\ [][C28_CompletedSkipped]_vars
    /\ [](pc = "loop" => C28_StatusBlind)

\* an archived task was sent the 1h reminder and its key is in the set
C28_Witness ==
    /\ pc = "loop"
    /\ \E i \in 1..Len(all_tasks), j \in 1..Len(mail_calls) :
        /\ all_tasks[i].status = "archived"
        /\ mail_calls[j].id = all_tasks[i].id
        /\ mail_calls[j].window = "1h"
        /\ mail_calls[j].ok
        /\ ReminderKey(all_tasks[i].id, "1h") \in sent_reminders

----------------------------------------------------------------------------
(* C29: the size of the dedup set *)

\* the set is above the ceiling only inside the task loop of a pass that
\* has inserted a key
C29_AboveOnlyInLoop ==
    Cardinality(sent_reminders) > ReminderCeiling =>
        /\ pc = "loop"
        /\ OkKeys(mail_calls) # {}
        /\ OkKeys(mail_calls) \subseteq sent_reminders

\* a pass starts with at most ReminderCeiling keys
C29_PassStart ==
    pc # "loop" /\ pc' = "loop" =>
        /\ Cardinality(sent_reminders) <= ReminderCeiling
        /\ sent_reminders' = sent_reminders

----------------------------------------------------------------------------
(* The admin routes (routes/admin.py) behind require_admin                 *)
(* (middleware/admin.py).  The profiles table and the auth users are not   *)
(* part of the state; calls on them are counted in store_calls.            *)

\* admin.py line 12: the address that is admitted whatever its role
AdminEmail == "aditya@ealphabits.com"

\* the `email` and `role` claims of a token ("none": the claim is absent)
TokenEmails == {AdminEmail, "user@example.com", "none"}
TokenRoles == {"admin", "user", "none"}

\* tokens as the admin routes see them: one that jwt.decode rejects, and
\* access tokens with every combination of the claims
AdminTokens ==
    {[valid |-> FALSE, type |-> "none", sub |-> NoUser, email |-> "none", role |-> "none"]}
    \cup [valid : {TRUE}, type : {"access"}, sub : Users,
          email : TokenEmails, role : TokenRoles]

\* auth.py lines 47-51: the dict get_current_user returns; payload.get("role",
\* "user") gives "user" when the claim is absent
CurrentUser(token) ==
    [status |-> GetCurrentUser(token).status,
     user_id |-> GetCurrentUser(token).user_id,
     email |-> token.email,
     role |-> IF token.role = "none" THEN "user" ELSE token.role]

\* (mutant) the email test left out
RequireAdminRoleOnly(current_user) ==
    IF current_user.role # "admin" THEN 403 ELSE 200

\* middleware/admin.py lines 5-20: 403 unless the role is admin or the email
\* is the hard-coded address
RequireAdmin(current_user) ==
    IF current_user.role # "admin" /\ current_user.email # AdminEmail
    THEN 403 ELSE 200

\* a response of an admin route after store_calls calls of the store
AdminResp(status, tbl, store_calls) ==
    [status |-> status, tasks |-> tbl, store_calls |-> store_calls]

\* admin.py lines 79-115: two queries
GetAllUsers(store_ok, tbl) ==
    IF ~store_ok THEN AdminResp(500, tbl, 1) ELSE AdminResp(200, tbl, 2)

\* admin.py lines 199-245: the tasks of the user, the profile, the auth user
DeleteUser(admin, user_id, store_ok, tbl, own) ==
    LET NotTheirs(t) == own[t.id] # user_id IN
    IF user_id = admin.user_id THEN AdminResp(400, tbl, 0)
    ELSE IF ~store_ok THEN AdminResp(500, tbl, 1)
    ELSE AdminResp(200, SelectSeq(tbl, NotTheirs), 3)

\* the dependencies get_current_user and require_admin, then the route
HandleAdmin(route, token, user_id, store_ok, tbl, own) ==
    LET current_user == CurrentUser(token) IN
    IF current_user.status = 401 THEN AdminResp(401, tbl, 0)
    ELSE IF RequireAdmin(current_user) = 403 THEN AdminResp(403, tbl, 0)
    ELSE IF route = "users" THEN GetAllUsers(store_ok, tbl)
    ELSE DeleteUser(current_user, user_id, store_ok, tbl, own)

AdminRequest(route) ==
    /\ app = "up"
    /\ last_req = NoRequest
    /\ \E token \in AdminTokens, user_id \in Users, store_ok \in BOOLEAN :
        LET r == HandleAdmin(route, token, user_id, store_ok, tasks, owners)
        IN /\ route = "users" => user_id = "u1"
           /\ tasks' = r.tasks
           /\ last_req' = [route |-> route, token |-> token, user_id |-> user_id,
                           store_ok |-> store_ok, status |-> r.status,
                           store_calls |-> r.store_calls]
    /\ UNCHANGED <<running, jobs, sent_reminders, raised>>
    /\ UNCHANGED <<instances, call, started_once>>
    /\ UNCHANGED <<app, mqtt_loop, connected, owners, creds, inflight>>
    /\ UNCHANGED pass_vars
    /\ UNCHANGED hist_vars
    /\ UNCHANGED life_hist

GetAllUsersRequest == AdminRequest("users")
DeleteUserRequest == AdminRequest("delete_user")

\* the service is up; each task id is free or has a row and an owner
InitAdmin ==
    /\ tasks \in {l \in TaskLists : \A i \in 1..Len(l) : Plain(l[i])}
    /\ owners \in [TaskIds -> Users \cup {NoUser}]
    /\ \A id \in TaskIds :
        owners[id] # NoUser <=> \E i \in 1..Len(tasks) : tasks[i].id = id
    /\ creds = TRUE
    /\ app = "up"
    /\ mqtt_loop = FALSE
    /\ connected = FALSE
    /\ last_req = NoRequest
    /\ inflight = NoInflight
    /\ running = FALSE
    /\ jobs = <<>>
    /\ sent_reminders = {}
    /\ pc = "idle"
    /\ all_tasks = <<>>
    /\ idx = 1
    /\ now = DueT - 115
    /\ reminder_sent_count = 0
    /\ raised = FALSE
    /\ last_pass = "none"
    /\ mail_calls = <<>>
    /\ mail_stats = NoStats
    /\ overdue_hist = NoOverdue
    /\ last_ok = {}
    /\ cleared = FALSE
    /\ prev = NoPrev
    /\ instances = 0
    /\ call = "none"
    /\ started_once = FALSE
    /\ stops = {}
    /\ stop_at = "none"
    /\ skipped = FALSE
    /\ restarted = FALSE

NextAdmin ==
    \/ GetAllUsersRequest
    \/ DeleteUserRequest
    \/ Respond

SpecAdmin == InitAdmin /\ [][NextAdmin]_vars

\* the caller of the request in last_req is admitted by require_admin
C30_Admitted ==
    last_req.status # 403

\* an authenticated caller was admitted exactly when the role claim of the
\* token is 'admin' or its email claim is the hard-coded address
C30_AdmittedIff ==
    last_req # NoRequest /\ last_req.status # 401 =>
        (C30_Admitted <=>
            \/ last_req.token.role = "admin"
            \/ last_req.token.email = "aditya@ealphabits.com")

\* a request answered 403 made no call of the store and changed no row, and
\* would have been answered 403 whatever the store holds or answers
C30_RejectedStep ==
    last_req = NoRequest /\ last_req' # NoRequest /\ last_req'.status = 403 =>
        /\ last_req'.store_calls = 0
        /\ tasks' = tasks
        /\ owners' = owners
        /\ \A store_ok \in BOOLEAN, tbl \in TaskLists :
              HandleAdmin(last_req'.route, last_req'.token, last_req'.user_id,
                          store_ok, tbl, owners) = [status |-> 403, tasks |-> tbl,
                                                    store_calls |-> 0]

====
